---- MODULE Spec2Model ----
(***************************************************************************)
(* A model of lib_fat, the read-only FAT12/16/32 reader of fat-fuse.       *)
(*                                                                         *)
(* The backing image is a value chosen in Init and never changed (the      *)
(* driver is read-only).  The volume handle (struct Fat, lib.rs:26-44) is  *)
(* the variables bpb, ebpb16, ebpb32, fat, dir_cache, inode_cache and      *)
(* fat_type.  A Rust panic ends the process (pc = "aborted"); a loop that  *)
(* never ends is pc = "hung".                                              *)
(***************************************************************************)
EXTENDS Integers, Sequences, FiniteSets, TLC

VARIABLES
    image,            \* the backing file: length, boot sectors, sector contents
    overflow_checks,  \* build profile: TRUE = arithmetic overflow panics (debug),
                      \* FALSE = it wraps (release)
    pc,               \* "unmounted" | "idle" | "returned" | "aborted" | "hung",
                      \* and "walking" inside the loop of a chain walk
    bpb,              \* Fat.bpb
    ebpb16,           \* Fat.ebpb16 (Option)
    ebpb32,           \* Fat.ebpb32 (Option)
    fat,              \* Fat.fat: reserved-region sector number -> bytes
    dir_cache,        \* Fat.dir_cache: directory inode -> entry containers
    inode_cache,      \* Fat.inode_cache: child inode -> parent inode
    fat_type,         \* Fat.fat_type
    ret               \* the last call made on the handle and what it returned;
                      \* inside a chain walk also its local variables (frame)

vars == <<image, overflow_checks, pc, bpb, ebpb16, ebpb32, fat, dir_cache,
          inode_cache, fat_type, ret>>

(***************************************************************************)
(* Bounds of the model.                                                    *)
(***************************************************************************)
\* 32-byte directory records per sector of the images of Spec
\* (bytes_per_sector = 32 * RecsPerSector; the code accepts any u16 there).
RecsPerSector == 2
\* Highest cluster number an image of Spec uses, and highest inode a caller passes.
MaxCluster == 7

(***************************************************************************)
(* Results of fallible code: a value, a panic, or a loop that never ends.  *)
(***************************************************************************)
Ok(v) == [ok |-> TRUE, val |-> v]
Panic == [ok |-> FALSE, val |-> "panic"]
Hang == [ok |-> FALSE, val |-> "hang"]
None == [some |-> FALSE]
Some(v) == [some |-> TRUE, val |-> v]

\* `let name = v;` followed by the code K that uses the name
Bind(v, K(_)) == K(v)
\* a fallible call followed by the code K that uses its value: a panic or a
\* hang of the call is the outcome of the whole
Try(r, K(_)) == IF r.ok THEN K(r.val) ELSE r

(***************************************************************************)
(* Machine integers and bytes.                                             *)
(***************************************************************************)
U8 == 2^8
U16 == 2^16
\* TLC's integers are 32-bit signed.  A u32 of 2^31 or more is held in one of
\* two ways.  Where the code goes on to compute with it (a cluster number
\* decoded from a directory record, the wrapped data-sector count) it is held
\* as v - 2^32 and the arithmetic on it is exact (U32Half, UDivMod,
\* fat_offset_of).  Where the code only compares it (a wrapped sector number
\* against the sectors held in Fat.fat or the end of the file) it stands as Big.
Big == (2^30 - 1) * 2 + 1
Wrap32(v) == IF v < 0 THEN Big ELSE v

Min(a, b) == IF a < b THEN a ELSE b

\* a & b on n-bit values
RECURSIVE BitAnd(_, _, _)
BitAnd(a, b, n) ==
    IF n = 0 THEN 0
    ELSE (IF a % 2 = 1 /\ b % 2 = 1 THEN 1 ELSE 0) + 2 * BitAnd(a \div 2, b \div 2, n - 1)

\* little-endian integer of a byte sequence
RECURSIVE LE(_)
LE(bytes) == IF bytes = <<>> THEN 0 ELSE Head(bytes) + 256 * LE(Tail(bytes))

\* the n little-endian u16 of buf starting after byte offset off
LE16s(buf, off, n) == [i \in 1..n |-> buf[off + 2 * i - 1] + 256 * buf[off + 2 * i]]

Zeros(n) == [i \in 1..n |-> 0]

RECURSIVE Concat(_)
Concat(seqs) == IF seqs = <<>> THEN <<>> ELSE Head(seqs) \o Concat(Tail(seqs))

(***************************************************************************)
(* fat_helper.rs                                                           *)
(***************************************************************************)
\* A handle under construction or in use, as the code's `fat: &Fat`.
Self ==
    [bpb |-> bpb, ebpb16 |-> ebpb16, ebpb32 |-> ebpb32, fat |-> fat,
     dir_cache |-> dir_cache, inode_cache |-> inode_cache, fat_type |-> fat_type]

\* read_exact fails past the end of the file; sectors the image does not list are zero.
read_sector(f, sector_number) ==
    LET bps == f.bpb.bytes_per_sector IN
    IF bps = 0 THEN Ok(<<>>)
    ELSE IF sector_number >= image.len \div bps THEN Panic
    ELSE IF sector_number \in DOMAIN image.sectors THEN Ok(image.sectors[sector_number])
    ELSE Ok(Zeros(bps))

RECURSIVE read_cluster_from(_, _, _)
read_cluster_from(f, first_sector, i) ==
    IF i >= f.bpb.sectors_per_cluster THEN Ok(<<>>)
    ELSE Try(read_sector(f, first_sector + i), LAMBDA s :
         Try(read_cluster_from(f, first_sector, i + 1), LAMBDA rest :
         Ok(s \o rest)))

read_cluster(f, first_sector) == read_cluster_from(f, first_sector, 0)

calculate_fat_size(f) ==
    IF f.bpb.fat_size_16 # 0 THEN Ok(f.bpb.fat_size_16)
    ELSE IF f.ebpb32.present THEN Ok(f.ebpb32.fat_size_32)
    ELSE Panic

\* u16 arithmetic: (root_entry_count * 32 + (bytes_per_sector - 1)) / bytes_per_sector
root_dir_sectors(f) ==
    LET bps == f.bpb.bytes_per_sector
        m == f.bpb.root_entry_count * 32
        d == bps - 1
        s == (m % U16) + (d % U16)
        over == m >= U16 \/ d < 0 \/ s >= U16
    IN  IF over /\ overflow_checks THEN Panic
        ELSE IF bps = 0 THEN Panic
        ELSE Ok((s % U16) \div bps)

\* A cluster number read from a directory record can be any u32; one that is
\* >= 2^31 is held as v - 2^32 (see entry_cluster_number).  U32Half is v / 2 of
\* the u32 so held, and UDivMod(h, l, d) is <<v / d, v % d>> for v = 2h + l,
\* the quotient standing as Big when it is beyond 2^31.
U32Half(v) == IF v < 0 THEN ((v \div 2) + Big) + 1 ELSE v \div 2
SatAdd(a, b) == IF a > Big - b THEN Big ELSE a + b
UDivMod(h, l, d) ==
    LET a == h \div d
        b == h % d
    IN  <<IF a > Big \div 2 THEN Big ELSE SatAdd(2 * a, (2 * b + l) \div d),
          (2 * b + l) % d>>

\* cluster_number * 2, * 4, or + cluster_number / 2, in u32:
\* [over |-> the product or sum is >= 2^32, h, l |-> its wrapped value 2h + l]
fat_offset_of(f, cluster_number) ==
    CASE f.fat_type = "Fat16" ->
           [over |-> cluster_number < 0,
            h |-> IF cluster_number < 0 THEN (cluster_number + Big) + 1
                  ELSE cluster_number,
            l |-> 0]
      [] f.fat_type = "Fat32" ->
           [over |-> cluster_number < 0 \/ cluster_number >= 2^30,
            h |-> 2 * (cluster_number % 2^30),
            l |-> 0]
      [] OTHER ->
           \* c + c/2 = 3(c/2) + c%2, and with c/2 = 2g + m its half is 3g + e
           LET ch == U32Half(cluster_number)
               cl == cluster_number % 2
               g == ch \div 2
               m == ch % 2
               e == (3 * m + cl) \div 2
               over == g > (Big - e) \div 3
           IN  [over |-> over,
                h |-> IF over THEN ((((g - Big) - 1) + g) + g) + e
                      ELSE 3 * g + e,
                l |-> (3 * m + cl) % 2]

determine_fat_entry_offset(f, cluster_number) ==
    Bind(fat_offset_of(f, cluster_number), LAMBDA fo :
    IF fo.over /\ overflow_checks THEN Panic
    ELSE IF f.bpb.bytes_per_sector = 0 THEN Panic
    ELSE Bind(UDivMod(fo.h, fo.l, f.bpb.bytes_per_sector), LAMBDA qr :
         Bind(SatAdd(f.bpb.reserved_clusters, qr[1]), LAMBDA fat_sector_number :
         Bind(qr[2], LAMBDA fat_entry_offset :
         IF f.fat_type = "Fat32"
         THEN IF ~f.ebpb32.present THEN Panic
              \* flags & 0b0000000100000000
              ELSE IF (f.ebpb32.flags \div 256) % 2 = 0
                   THEN Ok(<<fat_sector_number, fat_entry_offset>>)
                   \* active_fat = (flags & 0xF000) >> 12
                   ELSE Try(calculate_fat_size(f), LAMBDA fat_size :
                        Ok(<<SatAdd(fat_sector_number,
                                    (f.ebpb32.flags \div 4096) * fat_size),
                             fat_entry_offset>>))
         ELSE Ok(<<fat_sector_number, fat_entry_offset>>)))))

\* read_fat_entry without the case of a FAT12 entry spanning two sectors
read_fat_entry_one_sector(f, cluster_number, fat_sector_number, fat_entry_offset) ==
    IF fat_sector_number \notin DOMAIN f.fat THEN Panic
    ELSE
    LET sector == f.fat[fat_sector_number]
        o == fat_entry_offset
        has(k) == o + k + 1 <= Len(sector)
    IN  CASE f.fat_type = "Fat12" ->
               IF ~has(1) THEN Panic
               ELSE IF cluster_number % 2 # 0
                    THEN Ok((sector[o + 1] + 256 * sector[o + 2]) \div 16)
                    ELSE Ok((sector[o + 1] + 256 * sector[o + 2]) % 4096)
          [] f.fat_type = "Fat16" ->
               IF ~has(1) THEN Panic
               ELSE Ok(sector[o + 1] + 256 * sector[o + 2])
          [] OTHER ->
               IF ~has(3) THEN Panic
               ELSE Ok((sector[o + 1] + 256 * sector[o + 2] + 65536 * sector[o + 3]
                        + 16777216 * sector[o + 4]) % 268435456)

\* offsets are 0-based as in the code; a missing sector or byte is a panic
read_fat_entry(f, cluster_number, fat_sector_number, fat_entry_offset) ==
    IF fat_sector_number \notin DOMAIN f.fat THEN Panic
    ELSE
    LET sector == f.fat[fat_sector_number]
        o == fat_entry_offset
        has(k) == o + k + 1 <= Len(sector)
    IN  CASE f.fat_type = "Fat12" ->
               LET split == f.bpb.bytes_per_sector - 1
                   v == IF o = split
                        THEN IF (fat_sector_number + 1) \notin DOMAIN f.fat
                                \/ ~has(0)
                                \/ Len(f.fat[fat_sector_number + 1]) = 0
                             THEN Panic
                             ELSE Ok(sector[o + 1] + 256 * f.fat[fat_sector_number + 1][1])
                        ELSE IF ~has(1) THEN Panic
                             ELSE Ok(sector[o + 1] + 256 * sector[o + 2])
               IN  IF ~v.ok THEN v
                   ELSE IF cluster_number % 2 # 0
                        THEN Ok(v.val \div 16)
                        ELSE Ok(v.val % 4096)
          [] f.fat_type = "Fat16" ->
               IF ~has(1) THEN Panic
               ELSE Ok(sector[o + 1] + 256 * sector[o + 2])
          [] OTHER ->
               IF ~has(3) THEN Panic
               ELSE Ok((sector[o + 1] + 256 * sector[o + 2] + 65536 * sector[o + 3]
                        + 16777216 * sector[o + 4]) % 268435456)

first_sector_of_cluster(f, cluster_number) ==
    Try(root_dir_sectors(f), LAMBDA rds :
    Try(calculate_fat_size(f), LAMBDA fs :
    Bind(f.bpb.reserved_clusters + (f.bpb.num_fats * fs) + rds, LAMBDA first_data_sector :
    \* ((cluster_number - 2) * sectors_per_cluster) + first_data_sector in u32
    IF cluster_number - 2 < 0 /\ overflow_checks THEN Panic
    ELSE Ok(Wrap32(((cluster_number - 2) * f.bpb.sectors_per_cluster)
                   + first_data_sector)))))

is_eof(f, fat_entry) ==
    CASE f.fat_type = "Fat12" -> fat_entry >= 4088          \* 0x0FF8
      [] f.fat_type = "Fat16" -> fat_entry >= 65528         \* 0xFFF8
      [] OTHER -> fat_entry >= 268435448                    \* 0x0FFFFFF8

\* The loop of file_cluster_count.  Its control state is current_block alone, so
\* coming back to a block already visited is a loop without an exit (Hang); what
\* becomes of it, iteration by iteration, is CountStep and ReadStep of SpecWalk.
RECURSIVE count_loop(_, _, _, _, _)
count_loop(f, cluster_number, current_block, n_blocks, visited) ==
    IF current_block \in visited THEN Hang
    ELSE Try(determine_fat_entry_offset(f, current_block), LAMBDA loc :
         Try(read_fat_entry(f, cluster_number, loc[1], loc[2]), LAMBDA fat_entry :
         IF is_eof(f, fat_entry) \/ fat_entry = 0 THEN Ok(n_blocks + 1)
         ELSE count_loop(f, cluster_number, fat_entry, n_blocks + 1,
                         visited \cup {current_block})))

file_cluster_count(f, cluster_number) ==
    IF cluster_number = 0 THEN Ok(0)
    ELSE count_loop(f, cluster_number, cluster_number, 0, {})

\* -> (bytes of the cluster, Option<next cluster>)
read_data(f, cluster_number) ==
    IF cluster_number = 0 THEN Ok([sector |-> <<>>, next |-> None])
    ELSE Try(first_sector_of_cluster(f, cluster_number), LAMBDA sector_number :
         Try(read_cluster(f, sector_number), LAMBDA sector :
         Try(determine_fat_entry_offset(f, cluster_number), LAMBDA loc :
         Try(read_fat_entry(f, cluster_number, loc[1], loc[2]), LAMBDA fat_entry :
         IF is_eof(f, fat_entry) \/ fat_entry = 0
         THEN Ok([sector |-> sector, next |-> None])
         ELSE Ok([sector |-> sector, next |-> Some(fat_entry)])))))

\* The loop of read_file_full: data so far, the cluster just read, the clusters read.
RECURSIVE full_loop(_, _, _, _)
full_loop(f, data, new_data, visited) ==
    IF ~new_data.next.some THEN Ok(data \o new_data.sector)
    ELSE IF new_data.next.val \in visited THEN Hang
    ELSE Try(read_data(f, new_data.next.val), LAMBDA step :
         full_loop(f, data \o new_data.sector, step,
                   visited \cup {new_data.next.val}))

read_file_full(f, cluster_number) ==
    Try(read_data(f, cluster_number), LAMBDA first :
    full_loop(f, <<>>, first, {cluster_number}))

(***************************************************************************)
(* fat_dir.rs: records, names                                              *)
(***************************************************************************)
\* chksum: rotate right by one, add the byte, all in u8
RECURSIVE chksum_from(_, _)
chksum_from(name, sum) ==
    IF name = <<>> THEN sum
    ELSE LET p1 == IF sum % 2 # 0 THEN 128 ELSE 0
             p2 == sum \div 2
             a1 == (p1 + p2) % U8
             a2 == (a1 + Head(name)) % U8
         IN  chksum_from(Tail(name), a2)

chksum(name) == chksum_from(name, 0)

\* FatDirectoryEntry::new: entry_bytes is the 32-byte record, 1-based here
FatDirectoryEntry_new(b) ==
    [name |-> SubSeq(b, 1, 11),
     attribute |-> b[12],
     nt_reserved |-> b[13],
     created_time_tenth |-> b[14],
     created_time |-> LE(SubSeq(b, 15, 16)),
     created_date |-> LE(SubSeq(b, 17, 18)),
     last_accessed |-> LE(SubSeq(b, 19, 20)),
     first_cluster_hi |-> LE(SubSeq(b, 21, 22)),
     write_time |-> LE(SubSeq(b, 23, 24)),
     write_date |-> LE(SubSeq(b, 25, 26)),
     first_cluster_low |-> LE(SubSeq(b, 27, 28)),
     size |-> LE(SubSeq(b, 29, 32))]

\* FatLongDirectoryEntry::new
FatLongDirectoryEntry_new(b) ==
    [order |-> b[1],
     name1 |-> LE16s(b, 1, 5),
     attr |-> b[12],
     dir_type |-> b[13],
     checksum |-> b[14],
     name2 |-> LE16s(b, 14, 6),
     first_cluster_low |-> LE(SubSeq(b, 27, 28)),
     name3 |-> LE16s(b, 28, 2)]

\* FatDirectoryEntry::cluster_number
entry_cluster_number(short_entry) ==
    \* a u32 that is >= 2^31 is held as v - 2^32
    IF short_entry.first_cluster_hi >= 32768
    THEN (short_entry.first_cluster_hi - 65536) * 65536 + short_entry.first_cluster_low
    ELSE short_entry.first_cluster_hi * 65536 + short_entry.first_cluster_low

\* FatDirectoryEntryContainer::cluster_number
cluster_number(container) == entry_cluster_number(container.short_entry)

\* String::from_utf8: the code points of a well-formed UTF-8 byte sequence, or a
\* failure (which the code unwraps into a panic).
RECURSIVE from_utf8(_)
from_utf8(b) ==
    IF b = <<>> THEN Ok(<<>>)
    ELSE
    LET b0 == b[1]
        n == Len(b)
        cont(i) == i <= n /\ b[i] >= 128 /\ b[i] <= 191
        in(i, lo, hi) == i <= n /\ b[i] >= lo /\ b[i] <= hi
        width == IF b0 < 128 THEN 1
                 ELSE IF b0 >= 194 /\ b0 <= 223 /\ cont(2) THEN 2
                 ELSE IF b0 = 224 /\ in(2, 160, 191) /\ cont(3) THEN 3
                 ELSE IF ((b0 >= 225 /\ b0 <= 236) \/ b0 = 238 \/ b0 = 239)
                         /\ cont(2) /\ cont(3) THEN 3
                 ELSE IF b0 = 237 /\ in(2, 128, 159) /\ cont(3) THEN 3
                 ELSE IF b0 = 240 /\ in(2, 144, 191) /\ cont(3) /\ cont(4) THEN 4
                 ELSE IF b0 >= 241 /\ b0 <= 243 /\ cont(2) /\ cont(3) /\ cont(4) THEN 4
                 ELSE IF b0 = 244 /\ in(2, 128, 143) /\ cont(3) /\ cont(4) THEN 4
                 ELSE 0
    IN  IF width = 0 THEN Panic
        ELSE LET cp == CASE width = 1 -> b0
                         [] width = 2 -> (b0 % 32) * 64 + (b[2] % 64)
                         [] width = 3 -> (b0 % 16) * 4096 + (b[2] % 64) * 64 + (b[3] % 64)
                         [] OTHER -> (b0 % 8) * 262144 + (b[2] % 64) * 4096
                                     + (b[3] % 64) * 64 + (b[4] % 64)
                 rest == from_utf8(SubSeq(b, width + 1, n))
             IN  IF ~rest.ok THEN rest ELSE Ok(<<cp>> \o rest.val)

\* decode_utf16(..).map(|r| r.unwrap_or(REPLACEMENT_CHARACTER))
RECURSIVE decode_utf16(_)
decode_utf16(u) ==
    IF u = <<>> THEN <<>>
    ELSE LET u0 == u[1] IN
         IF u0 < 55296 \/ u0 > 57343 THEN <<u0>> \o decode_utf16(Tail(u))
         ELSE IF u0 <= 56319 /\ Len(u) >= 2 /\ u[2] >= 56320 /\ u[2] <= 57343
              THEN <<65536 + (u0 - 55296) * 1024 + (u[2] - 56320)>>
                   \o decode_utf16(SubSeq(u, 3, Len(u)))
              ELSE <<65533>> \o decode_utf16(Tail(u))

\* replace_vec_section for the three name parts of one fragment: all 13 units land
\* at offset, or an index is out of range (a panic).
RECURSIVE place_fragments(_, _)
place_fragments(long_entries, name_bytes) ==
    IF long_entries = <<>> THEN Ok(name_bytes)
    ELSE LET entry == Head(long_entries)
             \* entry.order & !0x40
             entry_n == entry.order - (IF (entry.order \div 64) % 2 = 1 THEN 64 ELSE 0)
             offset == (entry_n - 1) * 13
             units == entry.name1 \o entry.name2 \o entry.name3
         IN  IF entry_n = 0 THEN Panic
             ELSE IF offset + 13 > Len(name_bytes) THEN Panic
             ELSE place_fragments(Tail(long_entries),
                      [i \in 1..Len(name_bytes) |->
                          IF i > offset /\ i <= offset + 13 THEN units[i - offset]
                          ELSE name_bytes[i]])

\* index of the last of the 7 bytes name[1..8] that is not 0x20, 0 when none
short_end_index(name7) ==
    LET S == {i \in 1..Len(name7) : name7[i] # 32} IN
    IF S = {} THEN 0 ELSE CHOOSE i \in S : \A j \in S : j <= i

\* parse_name that does not cut the long name at its 0x0000 terminator
parse_name_untruncated(short_entry, long_entries) ==
    IF Len(long_entries) = 0
    THEN LET name_bytes == short_entry.name
             name == SubSeq(name_bytes, 2, 8)
             ext == SubSeq(name_bytes, 9, 11)
             first == IF name_bytes[1] = 5 THEN <<229>> ELSE <<name_bytes[1]>>
             end_index == short_end_index(name)
             base == IF end_index # 0 THEN SubSeq(name, 1, end_index) ELSE <<>>
             extension == IF ext[1] # 32
                          THEN <<46, ext[1]>>
                               \o (IF ext[3] # 32 THEN <<ext[2], ext[3]>>
                                   ELSE IF ext[2] # 32 THEN <<ext[2]>>
                                   ELSE <<>>)
                          ELSE <<>>
         IN  from_utf8(first \o base \o extension)
    ELSE LET num_long_entries == Len(long_entries)
             placed == place_fragments(long_entries, Zeros(num_long_entries * 13))
         IN  IF ~placed.ok THEN placed
             ELSE LET Z == {i \in 1..Len(placed.val) : placed.val[i] = 0} IN
                  IF Z = {} THEN Panic     \* position(..).unwrap()
                  ELSE Ok(decode_utf16(placed.val))

\* FatDirectoryEntryContainer::parse_name -> the String, as its code points
parse_name(short_entry, long_entries) ==
    IF Len(long_entries) = 0
    THEN LET name_bytes == short_entry.name
             name == SubSeq(name_bytes, 2, 8)
             ext == SubSeq(name_bytes, 9, 11)
             first == IF name_bytes[1] = 5 THEN <<229>> ELSE <<name_bytes[1]>>
             end_index == short_end_index(name)
             base == IF end_index # 0 THEN SubSeq(name, 1, end_index) ELSE <<>>
             extension == IF ext[1] # 32
                          THEN <<46, ext[1]>>
                               \o (IF ext[3] # 32 THEN <<ext[2], ext[3]>>
                                   ELSE IF ext[2] # 32 THEN <<ext[2]>>
                                   ELSE <<>>)
                          ELSE <<>>
         IN  from_utf8(first \o base \o extension)
    ELSE LET num_long_entries == Len(long_entries)
             placed == place_fragments(long_entries, Zeros(num_long_entries * 13))
         IN  IF ~placed.ok THEN placed
             ELSE LET Z == {i \in 1..Len(placed.val) : placed.val[i] = 0} IN
                  IF Z = {} THEN Panic     \* position(..).unwrap()
                  ELSE LET index == CHOOSE i \in Z : \A j \in Z : i <= j IN
                       Ok(decode_utf16(SubSeq(placed.val, 1, index - 1)))

(***************************************************************************)
(* fat_dir.rs: the directory decoder                                       *)
(***************************************************************************)
\* The `while !current_long_entries.is_empty()` loop of read_dir_chain: the
\* accepted long entries, and what is left in current_long_entries after it
\* (a `break` leaves the entries not yet removed where they are).
RECURSIVE move_long_entries(_, _, _)
move_long_entries(current_long_entries, long_entries, checksum) ==
    IF current_long_entries = <<>>
    THEN Ok([long_entries |-> long_entries, pending |-> <<>>])
    ELSE LET current_long_entry == Head(current_long_entries)
             rest == Tail(current_long_entries)
             n_raw == (Len(rest) % U8) + 1
             n == n_raw % U8
         IN  IF n_raw >= U8 /\ overflow_checks THEN Panic
             ELSE IF BitAnd(current_long_entry.attr, n, 8) = 0
             THEN Ok([long_entries |-> <<>>, pending |-> rest])
             ELSE IF current_long_entry.checksum # checksum
             THEN Ok([long_entries |-> <<>>, pending |-> rest])
             ELSE move_long_entries(rest, Append(long_entries, current_long_entry),
                                    checksum)

\* The `loop` of read_dir_chain: the containers decoded from sector, in order.
RECURSIVE dir_loop(_, _, _, _, _)
dir_loop(f, sector, current, directory_entries, current_long_entries) ==
    IF current + 32 > Len(sector) THEN Panic      \* &sector[current..current + 32]
    ELSE
    Bind(SubSeq(sector, current + 1, current + 32), LAMBDA current_buffer :
    IF current_buffer[1] = 0 THEN Ok(directory_entries)
    ELSE IF current_buffer[1] = 229
    THEN dir_loop(f, sector, current + 32, directory_entries, current_long_entries)
    ELSE IF BitAnd(current_buffer[12], 63, 8) = 15
    THEN dir_loop(f, sector, current + 32, directory_entries,
                  Append(current_long_entries,
                         FatLongDirectoryEntry_new(current_buffer)))
    ELSE IF BitAnd(current_buffer[12], 24, 8) = 24
    THEN dir_loop(f, sector, current + 32, directory_entries, current_long_entries)
    ELSE
    Bind(FatDirectoryEntry_new(current_buffer), LAMBDA short_entry :
    Try(move_long_entries(current_long_entries, <<>>, chksum(short_entry.name)),
        LAMBDA moved :
    Try(file_cluster_count(f, entry_cluster_number(short_entry)), LAMBDA cluster_count :
    Try(parse_name(short_entry, moved.long_entries), LAMBDA name :
    dir_loop(f, sector, current + 32,
             Append(directory_entries,
                    [short_entry |-> short_entry,
                     long_entries |-> moved.long_entries,
                     cached_name |-> name,
                     cached_cluster_count |-> cluster_count]),
             moved.pending))))))

\* the insert with its arguments exchanged: the directory keyed to its children
cache_parents_exchanged(cache, directory_entries, inode) ==
    IF directory_entries = <<>> THEN cache
    ELSE [k \in DOMAIN cache \cup {inode} |->
             IF k = inode
             THEN entry_cluster_number(
                      directory_entries[Len(directory_entries)].short_entry)
             ELSE cache[k]]

\* inode_cache after `for entry in directory_entries { inode_cache.insert(..) }`
cache_parents(cache, directory_entries, inode) ==
    LET kids == {cluster_number(directory_entries[i]) : i \in 1..Len(directory_entries)} IN
    [k \in DOMAIN cache \cup kids |-> IF k \in kids THEN inode ELSE cache[k]]

\* a cache that holds the directory decoded last and no other
cache_entries_latest_only(cache, directory_entries, inode) ==
    [k \in {inode} |-> directory_entries]

\* dir_cache after dir_cache.insert(inode, directory_entries)
cache_entries(cache, directory_entries, inode) ==
    [k \in DOMAIN cache \cup {inode} |-> IF k = inode THEN directory_entries ELSE cache[k]]

\* read_dir_chain that caches the containers last record first
read_dir_chain_reversed(f, inode, sector, start) ==
    Try(dir_loop(f, sector, start, <<>>, <<>>), LAMBDA directory_entries :
    Bind([i \in 1..Len(directory_entries) |->
             directory_entries[Len(directory_entries) + 1 - i]], LAMBDA reversed :
    Ok([f EXCEPT !.inode_cache = cache_parents(f.inode_cache, reversed, inode),
                 !.dir_cache = cache_entries(f.dir_cache, reversed, inode)])))

\* read_dir_chain -> the handle with both caches updated
read_dir_chain(f, inode, sector, start) ==
    Try(dir_loop(f, sector, start, <<>>, <<>>), LAMBDA directory_entries :
    Ok([f EXCEPT !.inode_cache = cache_parents(f.inode_cache, directory_entries, inode),
                 !.dir_cache = cache_entries(f.dir_cache, directory_entries, inode)]))

RECURSIVE read_root_sectors(_, _, _, _)
read_root_sectors(f, first_root_sector_num, i, root_sector_count) ==
    IF i >= root_sector_count THEN Ok(<<>>)
    ELSE IF i + first_root_sector_num >= U16 /\ overflow_checks THEN Panic
    ELSE Try(read_sector(f, (i + first_root_sector_num) % U16), LAMBDA s :
         Try(read_root_sectors(f, first_root_sector_num, i + 1, root_sector_count),
             LAMBDA rest :
         Ok(s \o rest)))

\* read_root_dir -> the handle with the root directory cached
read_root_dir(f) ==
    IF f.fat_type \in {"Fat12", "Fat16"}
    THEN Bind(f.bpb.num_fats * f.bpb.fat_size_16, LAMBDA m :
         Bind(f.bpb.reserved_clusters + (m % U16), LAMBDA s :
         IF (m >= U16 \/ s >= U16) /\ overflow_checks THEN Panic
         ELSE Try(root_dir_sectors(f), LAMBDA root_sector_count :
              Try(read_root_sectors(f, s % U16, 0, root_sector_count), LAMBDA root_dir :
              read_dir_chain(f, 0, root_dir, 0)))))
    ELSE IF ~f.ebpb32.present THEN Panic
         ELSE Try(read_file_full(f, f.ebpb32.root_cluster), LAMBDA root_dir :
              read_dir_chain(f, f.ebpb32.root_cluster, root_dir, 0))

\* get_dir -> the handle after the call, and the Option it returns
get_dir(f, inode) ==
    IF inode \notin DOMAIN f.dir_cache
    THEN Try(read_file_full(f, inode), LAMBDA dir_file :
         Try(read_dir_chain(f, inode, dir_file, 0), LAMBDA g :
         Ok([handle |-> g,
             result |-> IF inode \in DOMAIN g.dir_cache
                        THEN Some(g.dir_cache[inode]) ELSE None])))
    ELSE Ok([handle |-> f, result |-> Some(f.dir_cache[inode])])

(***************************************************************************)
(* fat_reserved.rs                                                         *)
(***************************************************************************)
\* FatBpb::new: the BPB fields of a 512-byte boot record
FatBpb_new(boot_record) ==
    [bytes_per_sector |-> boot_record.bytes_per_sector,
     sectors_per_cluster |-> boot_record.sectors_per_cluster,
     reserved_clusters |-> boot_record.reserved_clusters,
     num_fats |-> boot_record.num_fats,
     root_entry_count |-> boot_record.root_entry_count,
     total_sectors_16 |-> boot_record.total_sectors_16,
     fat_size_16 |-> boot_record.fat_size_16,
     total_sectors_32 |-> boot_record.total_sectors_32]

\* Fat32Ebpb::new: the fields at 0x24 read as the FAT32 extension
Fat32Ebpb_new(boot_record) ==
    [present |-> TRUE,
     fat_size_32 |-> boot_record.fat_size_32,
     flags |-> boot_record.flags,
     root_cluster |-> boot_record.root_cluster]

NoEbpb32 == [present |-> FALSE, fat_size_32 |-> 0, flags |-> 0, root_cluster |-> 0]

\* -> (cluster_count, FatType)
determine_fat_type(f) ==
    Try(root_dir_sectors(f), LAMBDA rds :
    Try(calculate_fat_size(f), LAMBDA fat_size :
    Bind(IF f.bpb.total_sectors_16 # 0 THEN f.bpb.total_sectors_16
         ELSE f.bpb.total_sectors_32, LAMBDA total_sectors :
    \* a difference below 0 wraps to 2^32 + d, held as d
    Bind(total_sectors - (f.bpb.reserved_clusters + (f.bpb.num_fats * fat_size) + rds),
         LAMBDA data_sectors :
    IF data_sectors < 0 /\ overflow_checks THEN Panic
    ELSE IF f.bpb.sectors_per_cluster = 0 THEN Panic
    ELSE Bind(UDivMod(U32Half(data_sectors), data_sectors % 2,
                      f.bpb.sectors_per_cluster)[1], LAMBDA cluster_count :
         IF cluster_count < 4085 THEN Ok(<<cluster_count, "Fat12">>)
         ELSE IF cluster_count < 65525 THEN Ok(<<cluster_count, "Fat16">>)
         ELSE Ok(<<cluster_count, "Fat32">>))))))

\* the `for i in 0..first_sector_of_cluster(&mut fat, 2)` loop of read_reserved
RECURSIVE read_reserved_sectors(_, _, _, _)
read_reserved_sectors(f, i, n, acc) ==
    IF i >= n THEN Ok(acc)
    ELSE Try(read_sector(f, i), LAMBDA sector :
         read_reserved_sectors(f, i + 1, n, acc @@ (i :> sector)))

signature_ok(buffer) == ~(buffer.b510 # 85 \/ buffer.b511 # 170)

\* the handle read_reserved declares from the 512 bytes it settled on
declare_fat(buffer) ==
    Bind(FatBpb_new(buffer), LAMBDA b :
    Bind(b.fat_size_16 = 0 /\ b.total_sectors_16 = 0 /\ b.total_sectors_32 # 0,
         LAMBDA is32 :
    [bpb |-> b,
     ebpb16 |-> [present |-> ~is32],
     ebpb32 |-> IF is32 THEN Fat32Ebpb_new(buffer) ELSE NoEbpb32,
     fat |-> <<>>, dir_cache |-> <<>>, inode_cache |-> <<>>,
     fat_type |-> "Fat32"]))

\* read_reserved that takes the backup boot sector without verifying its signature
read_reserved_backup_unverified(img) ==
    IF img.len < 512 THEN Panic
    ELSE IF ~signature_ok(img.boot0) /\ img.len < 512 * 6 + 512 THEN Panic
    ELSE
    Bind(declare_fat(IF signature_ok(img.boot0) THEN img.boot0 ELSE img.boot6),
         LAMBDA f0 :
    IF ~(img.len >= (IF f0.bpb.total_sectors_16 = 0 THEN f0.bpb.total_sectors_32
                     ELSE f0.bpb.total_sectors_16) * f0.bpb.bytes_per_sector)
    THEN Panic
    ELSE Try(determine_fat_type(f0), LAMBDA t :
         Bind([f0 EXCEPT !.fat_type = t[2]], LAMBDA f1 :
         IF ~(f1.bpb.num_fats >= 2) THEN Panic
         ELSE Try(first_sector_of_cluster(f1, 2), LAMBDA n :
              Try(read_reserved_sectors(f1, 0, n, <<>>), LAMBDA sectors :
              Ok([f1 EXCEPT !.fat = sectors]))))))

\* read_reserved -> the handle, its caches still empty
read_reserved(img) ==
    IF img.len < 512 THEN Panic                         \* "Cannot read boot sector"
    ELSE IF ~signature_ok(img.boot0) /\ img.len < 512 * 6 + 512 THEN Panic
    ELSE IF ~signature_ok(img.boot0) /\ ~signature_ok(img.boot6) THEN Panic
    ELSE
    Bind(declare_fat(IF signature_ok(img.boot0) THEN img.boot0 ELSE img.boot6),
         LAMBDA f0 :
    IF ~(img.len >= (IF f0.bpb.total_sectors_16 = 0 THEN f0.bpb.total_sectors_32
                     ELSE f0.bpb.total_sectors_16) * f0.bpb.bytes_per_sector)
    THEN Panic                                          \* "Total sectors larger than disk size"
    ELSE Try(determine_fat_type(f0), LAMBDA t :
         Bind([f0 EXCEPT !.fat_type = t[2]], LAMBDA f1 :
         IF ~(f1.bpb.num_fats >= 2) THEN Panic
         ELSE Try(first_sector_of_cluster(f1, 2), LAMBDA n :
              Try(read_reserved_sectors(f1, 0, n, <<>>), LAMBDA sectors :
              Ok([f1 EXCEPT !.fat = sectors]))))))

(***************************************************************************)
(* lib.rs: the operations of Fat                                           *)
(***************************************************************************)
mount_volume(img) ==
    IF ~img.exists THEN Panic                           \* File::open(..).expect("Bad file")
    ELSE Try(read_reserved(img), LAMBDA f : read_root_dir(f))

get_root_cluster_number(f) ==
    IF f.fat_type = "Fat32"
    THEN IF f.ebpb32.present THEN Ok(f.ebpb32.root_cluster) ELSE Panic
    ELSE Ok(0)

\* char::to_lowercase on the code points the model's names use: ASCII and Latin-1
\* letters (lower = upper + 32), everything else unchanged.
lower_char(c) ==
    IF (c >= 65 /\ c <= 90) \/ (c >= 192 /\ c <= 222 /\ c # 215) THEN c + 32 ELSE c

to_lowercase(str) == [i \in 1..Len(str) |-> lower_char(str[i])]

get_data(f, ino, offset, size) ==
    IF ino \notin DOMAIN f.inode_cache THEN Ok(None)
    ELSE Try(read_file_full(f, ino), LAMBDA data :
         IF offset > Len(data) THEN Ok(Some(<<>>))
         \* head = offset, tail = min(head + size, data.len())
         ELSE Ok(Some(SubSeq(data, offset + 1,
                             IF offset + size > Len(data) THEN Len(data)
                             ELSE offset + size))))

list_directory(f, inode) == get_dir(f, inode)

\* `for child in dir { if <test> { return Some(child) } }` and the None after
\* the loop; S is the set of positions whose child passes the test
first_child(dir, S) ==
    IF S = {} THEN None
    ELSE Bind(CHOOSE x \in S : \A y \in S : x <= y, LAMBDA i :
         Some([index |-> i, child |-> dir[i]]))

\* lookup whose loop does not return at the first match: the last match wins
lookup_last_match(f, parent_inode, name_arg) ==
    Try(IF parent_inode \notin DOMAIN f.dir_cache
        THEN list_directory(f, parent_inode)
        ELSE Ok([handle |-> f, result |-> None]), LAMBDA listed :
    IF parent_inode \notin DOMAIN listed.handle.dir_cache
    THEN Ok([handle |-> listed.handle, result |-> None])
    ELSE Bind({i \in 1..Len(listed.handle.dir_cache[parent_inode]) :
                 to_lowercase(listed.handle.dir_cache[parent_inode][i].cached_name)
                 = to_lowercase(name_arg)}, LAMBDA S :
         Ok([handle |-> listed.handle,
             result |-> IF S = {} THEN None
                        ELSE Bind(CHOOSE x \in S : \A y \in S : y <= x, LAMBDA i :
                             Some([index |-> i,
                                   child |-> listed.handle.dir_cache[parent_inode][i]]))])))

\* lookup -> the handle after the call, and the Option it returns
lookup(f, parent_inode, name_arg) ==
    Try(IF parent_inode \notin DOMAIN f.dir_cache
        THEN list_directory(f, parent_inode)
        ELSE Ok([handle |-> f, result |-> None]), LAMBDA listed :
    IF parent_inode \notin DOMAIN listed.handle.dir_cache
    THEN Ok([handle |-> listed.handle, result |-> None])
    ELSE Ok([handle |-> listed.handle,
             result |-> first_child(listed.handle.dir_cache[parent_inode],
                 {i \in 1..Len(listed.handle.dir_cache[parent_inode]) :
                    to_lowercase(listed.handle.dir_cache[parent_inode][i].cached_name)
                    = to_lowercase(name_arg)})]))

get_inode(f, inode) ==
    IF inode \notin DOMAIN f.inode_cache THEN Ok(None)
    ELSE Bind(f.inode_cache[inode], LAMBDA parent_inode :
         IF parent_inode \notin DOMAIN f.dir_cache THEN Panic         \* .unwrap()
         ELSE Ok(first_child(f.dir_cache[parent_inode],
                     {i \in 1..Len(f.dir_cache[parent_inode]) :
                        cluster_number(f.dir_cache[parent_inode][i]) = inode})))

is_fat32(f) == f.fat_type = "Fat32"

(***************************************************************************)
(* The images of Spec: small volumes of each FAT type.                     *)
(*   root: a file with a long name "Ab" (short "AB~1.TXT"), a second file, *)
(*         the directory SUB (cluster 3);                                  *)
(*   SUB:  ".", "..", and the file DATA.BIN (cluster 4, one or two         *)
(*         clusters long).                                                 *)
(* On FAT32 the root is the chain 2 -> 7; on FAT12/16 it is the root       *)
(* region.  The FAT is one sector; the declared size of the volume gives   *)
(* the cluster count that makes the code detect the wanted type.           *)
(***************************************************************************)
ImgBytesPerSector == 32 * RecsPerSector
ImgSectorsPerCluster == 1 + 1
ImgClusterBytes == ImgSectorsPerCluster * ImgBytesPerSector
ImgReserved == (511 + ImgBytesPerSector) \div ImgBytesPerSector
ImgRootSectors == 1 + 1 + 1
ImgFirstData(ft) == ImgReserved + 2 + (IF ft = "Fat32" THEN 0 ELSE ImgRootSectors)
ImgClusters(ft) ==
    CASE ft = "Fat12" -> MaxCluster - 1
      [] ft = "Fat16" -> 4085
      [] OTHER -> 65525
ImgEoc(ft) ==
    CASE ft = "Fat12" -> 4095
      [] ft = "Fat16" -> 65535
      [] OTHER -> 268435455

LEn(v, n) == [i \in 1..n |-> (v \div (256 ^ (i - 1))) % 256]

Pad(bytes, n) == bytes \o Zeros(n - Len(bytes))

\* a short directory record
ShortRec(name, attr, cluster, size) ==
    name \o <<attr>> \o Zeros(8) \o LEn(cluster \div 65536, 2) \o Zeros(4)
    \o LEn(cluster % 65536, 2) \o LEn(size, 4)

\* a long-name record: order byte, 13 UTF-16 units, checksum of the short name
LongRec(order, units, checksum) ==
    <<order>> \o Concat([i \in 1..5 |-> LEn(units[i], 2)]) \o <<15, 0, checksum>>
    \o Concat([i \in 1..6 |-> LEn(units[5 + i], 2)]) \o <<0, 0>>
    \o Concat([i \in 1..2 |-> LEn(units[11 + i], 2)])

\* a name, 0x0000, then 0xFFFF up to 13 units
LongUnits(str) == str \o <<0>> \o [i \in 1..(12 - Len(str)) |-> 65535]

Name83(base, ext) == base \o [i \in 1..(8 - Len(base)) |-> 32]
                     \o ext \o [i \in 1..(3 - Len(ext)) |-> 32]

NameAb1 == Name83(<<65, 66, 126, 49>>, <<84, 88, 84>>)     \* "AB~1    TXT"
NameAB == Name83(<<65, 66>>, <<>>)                          \* "AB         "
NameB == Name83(<<66>>, <<>>)                               \* "B          "
NameSub == Name83(<<83, 85, 66>>, <<>>)                     \* "SUB        "
NameDot == Name83(<<46>>, <<>>)                             \* ".          "
NameDotDot == Name83(<<46, 46>>, <<>>)                      \* "..         "
NameData == Name83(<<68, 65, 84, 65>>, <<66, 73, 78>>)      \* "DATA    BIN"
Hello == <<72, 101, 108, 108, 111, 44, 32, 119, 111, 114, 108, 100, 33>>

\* the first cluster of the first file of the root: none (the file is empty) in
\* the images where two root entries share a lowercased name
ImgCa(p) == IF p.collide THEN 0 ELSE 6

\* the logical FAT of an image: the entry of each cluster 0..MaxCluster
ImgFatEntries(p) ==
    [c \in 0..MaxCluster |->
        CASE c < 2 -> ImgEoc(p.ft)
          [] c = 2 -> IF p.ft = "Fat32" THEN 7 ELSE 0
          [] c = 3 -> ImgEoc(p.ft)
          [] c = 4 -> IF p.two THEN 5 ELSE ImgEoc(p.ft)
          [] c = 5 -> IF p.two THEN ImgEoc(p.ft) ELSE 0
          [] c = 6 -> IF ImgCa(p) = 6 THEN ImgEoc(p.ft) ELSE 0
          [] c = 7 -> IF p.ft = "Fat32" THEN ImgEoc(p.ft) ELSE 0
          [] OTHER -> 0]

\* the bytes of a FAT holding entries E
FatBytes(ft, E) ==
    LET e(c) == IF c \in DOMAIN E THEN E[c] ELSE 0
        n == Cardinality(DOMAIN E)
    IN  CASE ft = "Fat16" -> Concat([i \in 1..n |-> LEn(e(i - 1), 2)])
          [] ft = "Fat32" -> Concat([i \in 1..n |-> LEn(e(i - 1), 4)])
          [] OTHER ->
               [k \in 1..(3 * ((n + 1) \div 2)) |->
                   LET pair == (k - 1) \div 3
                       r == (k - 1) % 3
                   IN  CASE r = 0 -> e(2 * pair) % 256
                         [] r = 1 -> (e(2 * pair) \div 256) + (e(2 * pair + 1) % 16) * 16
                         [] OTHER -> e(2 * pair + 1) \div 16]

\* bytes laid out on consecutive sectors from sector `first`
OnSectors(bytes, first) ==
    LET n == (Len(bytes) + ImgBytesPerSector - 1) \div ImgBytesPerSector
        padded == Pad(bytes, n * ImgBytesPerSector)
    IN  [s \in first..(first + n - 1) |->
            SubSeq(padded, (s - first) * ImgBytesPerSector + 1,
                   (s - first + 1) * ImgBytesPerSector)]

ImgClusterSector(ft, c) == ImgFirstData(ft) + (c - 2) * ImgSectorsPerCluster

ImgFile1Size(p) == IF p.two THEN ImgClusterBytes + 13 ELSE 13

ImgRootRecords(p) ==
    LongRec(65, LongUnits(<<65, 98>>), chksum(NameAb1))
    \o ShortRec(NameAb1, 32, ImgCa(p), IF ImgCa(p) = 0 THEN 0 ELSE 13)
    \o ShortRec(IF p.collide THEN NameAB ELSE NameB, 32, 0, 0)
    \o ShortRec(NameSub, 16, 3, 0)

ImgSubRecords(p) ==
    ShortRec(NameDot, 16, 3, 0)
    \o ShortRec(NameDotDot, 16, 0, 0)
    \o ShortRec(NameData, 32, 4, ImgFile1Size(p))

\* file content: small bytes, so that a cluster of it decoded as directory records
\* yields cluster numbers whose FAT offsets stay below 2^31
ImgPattern(n) == [i \in 1..n |-> 1 + (i % 31)]

ImgTotal(ft) == ImgFirstData(ft) + ImgClusters(ft) * ImgSectorsPerCluster

ImgBoot(p) ==
    [b510 |-> 85, b511 |-> 170,
     bytes_per_sector |-> ImgBytesPerSector,
     sectors_per_cluster |-> ImgSectorsPerCluster,
     reserved_clusters |-> ImgReserved,
     num_fats |-> 2,
     root_entry_count |-> IF p.ft = "Fat32" THEN 0 ELSE ImgRootSectors * RecsPerSector,
     total_sectors_16 |-> IF p.ft = "Fat32" THEN 0 ELSE ImgTotal(p.ft),
     fat_size_16 |-> IF p.ft = "Fat32" THEN 0 ELSE 1,
     total_sectors_32 |-> IF p.ft = "Fat32" THEN ImgTotal(p.ft) ELSE 0,
     fat_size_32 |-> IF p.ft = "Fat32" THEN 1 ELSE 0,
     flags |-> 0,
     root_cluster |-> IF p.ft = "Fat32" THEN 2 ELSE 0]

\* the sectors of the root directory: the root region, or the clusters 2 and 7
ImgRoot(p) ==
    IF p.ft = "Fat32"
    THEN OnSectors(SubSeq(Pad(ImgRootRecords(p), 2 * ImgClusterBytes),
                          1, ImgClusterBytes),
                   ImgClusterSector(p.ft, 2))
         @@ OnSectors(SubSeq(Pad(ImgRootRecords(p), 2 * ImgClusterBytes),
                             ImgClusterBytes + 1, 2 * ImgClusterBytes),
                      ImgClusterSector(p.ft, 7))
    ELSE OnSectors(ImgRootRecords(p), ImgReserved + 2)

MkImage(p) ==
    [exists |-> TRUE,
     len |-> ImgTotal(p.ft) * ImgBytesPerSector,
     boot0 |-> ImgBoot(p),
     boot6 |-> ImgBoot(p),
     sectors |->
         OnSectors(FatBytes(p.ft, ImgFatEntries(p)), ImgReserved)
         @@ OnSectors(FatBytes(p.ft, ImgFatEntries(p)), ImgReserved + 1)
         @@ ImgRoot(p)
         @@ OnSectors(ImgSubRecords(p), ImgClusterSector(p.ft, 3))
         @@ OnSectors(SubSeq(ImgPattern(ImgFile1Size(p)), 1,
                             Min(ImgFile1Size(p), ImgClusterBytes)),
                      ImgClusterSector(p.ft, 4))
         @@ (IF p.two
             THEN OnSectors(SubSeq(ImgPattern(ImgFile1Size(p)), ImgClusterBytes + 1,
                                   ImgFile1Size(p)),
                            ImgClusterSector(p.ft, 5))
             ELSE <<>>)
         @@ (IF ImgCa(p) = 6 THEN OnSectors(Hello, ImgClusterSector(p.ft, 6)) ELSE <<>>)]

ImgParams == [ft : {"Fat12", "Fat16", "Fat32"}, two : BOOLEAN, collide : BOOLEAN]

Images == {MkImage(p) : p \in ImgParams}

(***************************************************************************)
(* The state machine.                                                      *)
(***************************************************************************)
NoBpb ==
    [bytes_per_sector |-> 0, sectors_per_cluster |-> 0, reserved_clusters |-> 0,
     num_fats |-> 0, root_entry_count |-> 0, total_sectors_16 |-> 0,
     fat_size_16 |-> 0, total_sectors_32 |-> 0]

NoCall == [op |-> "none", args |-> <<>>, out |-> Ok(None)]

\* before mount_volume there is no handle
InitWith(imgs) ==
    /\ image \in imgs
    /\ overflow_checks \in BOOLEAN
    /\ pc = "unmounted"
    /\ bpb = NoBpb
    /\ ebpb16 = [present |-> FALSE]
    /\ ebpb32 = NoEbpb32
    /\ fat = <<>>
    /\ dir_cache = <<>>
    /\ inode_cache = <<>>
    /\ fat_type = "None"
    /\ ret = NoCall

Init == InitWith(Images)

SetHandle(g) ==
    /\ bpb' = g.bpb
    /\ ebpb16' = g.ebpb16
    /\ ebpb32' = g.ebpb32
    /\ fat' = g.fat
    /\ dir_cache' = g.dir_cache
    /\ inode_cache' = g.inode_cache
    /\ fat_type' = g.fat_type

KeepHandle == UNCHANGED <<bpb, ebpb16, ebpb32, fat, dir_cache, inode_cache, fat_type>>

\* how a call ends: it returns, it panics, or it never returns
After(r) == IF r.ok THEN "returned" ELSE IF r.val = "panic" THEN "aborted" ELSE "hung"

\* a call whose result r carries the handle after it and the value returned
CallMut(op, args, r) ==
    /\ pc' = After(r)
    /\ ret' = [op |-> op, args |-> args, out |-> IF r.ok THEN Ok(r.val.result) ELSE r]
    /\ IF r.ok THEN SetHandle(r.val.handle) ELSE KeepHandle
    /\ UNCHANGED <<image, overflow_checks>>

\* a call that leaves the handle as it is
CallRef(op, args, r) ==
    /\ pc' = After(r)
    /\ ret' = [op |-> op, args |-> args, out |-> r]
    /\ KeepHandle
    /\ UNCHANGED <<image, overflow_checks>>

MountVolume ==
    /\ pc = "unmounted"
    /\ LET r == mount_volume(image) IN
       CallMut("mount_volume", <<>>,
               IF r.ok THEN Ok([handle |-> r.val, result |-> None]) ELSE r)

\* the caller is done with what the call returned
Return ==
    /\ pc = "returned"
    /\ pc' = "idle"
    /\ ret' = NoCall
    /\ KeepHandle
    /\ UNCHANGED <<image, overflow_checks>>

Inodes == 0..MaxCluster

\* the inodes callers ask to list or search: the root (0, and 2 on FAT32), the
\* subdirectory, and the first cluster of a regular file
DirInodes == {0, 2, 3, 6}

Offsets == {0, 5, ImgClusterBytes + 5}

Sizes == {0, 8, 100}

\* the names callers look up: "ab", "AB", "b", "sub", "data.bin", "x"
LookupNames ==
    {<<97, 98>>, <<65, 66>>, <<98>>, <<115, 117, 98>>,
     <<100, 97, 116, 97, 46, 98, 105, 110>>, <<120>>}

ListDirectory ==
    /\ pc = "idle"
    /\ \E inode \in DirInodes :
          CallMut("list_directory", <<inode>>, list_directory(Self, inode))

Lookup ==
    /\ pc = "idle"
    /\ \E parent_inode \in DirInodes, name \in LookupNames :
          CallMut("lookup", <<parent_inode, name>>, lookup(Self, parent_inode, name))

GetInode ==
    /\ pc = "idle"
    /\ \E inode \in Inodes :
          CallRef("get_inode", <<inode>>, get_inode(Self, inode))

GetData ==
    /\ pc = "idle"
    /\ \E ino \in Inodes, offset \in Offsets, size \in Sizes :
          CallRef("get_data", <<ino, offset, size>>, get_data(Self, ino, offset, size))

\* cluster-chain I/O applied to one start cluster: the count and the length read
LenOf(r) == IF r.ok THEN Ok(Len(r.val)) ELSE r

ChainIO ==
    /\ pc = "idle"
    /\ \E start \in Inodes :
          /\ pc' = "returned"
          /\ ret' = [op |-> "chain_io", args |-> <<start>>,
                     out |-> Ok([cluster_count |-> file_cluster_count(Self, start),
                                 read_full_len |-> LenOf(read_file_full(Self, start))])]
          /\ KeepHandle
          /\ UNCHANGED <<image, overflow_checks>>

Next == MountVolume \/ Return \/ ListDirectory \/ Lookup \/ GetInode \/ GetData \/ ChainIO

Spec == Init /\ [][Next]_vars

(***************************************************************************)
(* Mounting: boot records of every layout around the type thresholds.      *)
(* The volumes are empty (every sector past the boot record is zero); the  *)
(* FAT is one sector, one sector is reserved, sectors are 512 bytes.       *)
(***************************************************************************)
MountParams ==
    [sig0 : BOOLEAN,                 \* sector 0 carries 0x55 0xAA
     sig6 : BOOLEAN,                 \* sector 6 carries 0x55 0xAA
     nf0 : {1, 2},                   \* num_fats of sector 0 (sector 6 says 2)
     layout : {"16", "16big", "32"}, \* which size and total fields are in use
     rec : {0, 16, 2048},            \* root_entry_count
     cc : {4084, 4085, 65524, 65525},\* clusters the declared total leaves for data
     spc : {1, 2},                   \* sectors_per_cluster
     len : {"full", "short", "tiny"},
     exists : BOOLEAN]

\* ceil(rec * 32 / 512), in unbounded arithmetic
MountRootSectors(p) == (p.rec * 32 + 511) \div 512

MountTotal(p) == 1 + 2 + MountRootSectors(p) + p.cc * p.spc

MountBoot(p, sig, nf) ==
    [b510 |-> IF sig THEN 85 ELSE 0,
     b511 |-> IF sig THEN 170 ELSE 0,
     bytes_per_sector |-> 512,
     sectors_per_cluster |-> p.spc,
     reserved_clusters |-> 1,
     num_fats |-> nf,
     root_entry_count |-> p.rec,
     total_sectors_16 |-> IF p.layout = "16" THEN MountTotal(p) ELSE 0,
     fat_size_16 |-> IF p.layout = "32" THEN 0 ELSE 1,
     total_sectors_32 |-> IF p.layout = "16" THEN 0 ELSE MountTotal(p),
     fat_size_32 |-> IF p.layout = "32" THEN 1 ELSE 0,
     flags |-> 0,
     root_cluster |-> IF p.layout = "32" THEN 2 ELSE 0]

MountImage(p) ==
    [exists |-> p.exists,
     len |-> CASE p.len = "full" -> MountTotal(p) * 512
               [] p.len = "short" -> MountTotal(p) * 512 - 1
               [] OTHER -> 1024,
     boot0 |-> MountBoot(p, p.sig0, p.nf0),
     boot6 |-> MountBoot(p, p.sig6, 2),
     sectors |-> <<>>]

\* total_sectors_16 is a 16-bit field
MountImages ==
    {MountImage(p) : p \in {q \in MountParams : q.layout = "16" => MountTotal(q) < U16}}

InitMount == InitWith(MountImages)

NextMount == MountVolume \/ Return

SpecMount == InitMount /\ [][NextMount]_vars

(***************************************************************************)
(* FAT tables: volumes of each type whose two FAT copies are two sectors   *)
(* each, with chains that mix odd and even clusters, cross the sector      *)
(* boundary of a FAT12 table, end in a free entry, or point outside the    *)
(* volume.  Sectors are 64 bytes here, so that (as with 512) a FAT12 entry *)
(* can start on the last byte of a sector.                                 *)
(***************************************************************************)
FvBytesPerSector == 2^6
FvReserved == 2^3
FvFatSize == 1 + 1
FvFatBytes == FvFatSize * FvBytesPerSector
FvRootEntries == 2 * 3
FvRootSectors(ft) == IF ft = "Fat32" THEN 0 ELSE 3
FvFirstData(ft) == FvReserved + 2 * FvFatSize + FvRootSectors(ft)
FvClusters(ft) ==
    CASE ft = "Fat12" -> 2^6
      [] ft = "Fat16" -> 4085
      [] OTHER -> 65525
FvTotal(ft) == FvFirstData(ft) + FvClusters(ft) * ImgSectorsPerCluster

\* the FAT12 cluster whose entry starts on the last byte of the first FAT sector
FvSplitCluster == (2 * FvBytesPerSector) \div 3
\* a cluster number past the last cluster of the volume
FvBeyond(ft) == FvClusters(ft) + 6

\* entries of the FAT a sector pair has room for
FvCapacity(ft) ==
    CASE ft = "Fat12" -> (2 * FvFatBytes) \div 3
      [] ft = "Fat16" -> FvFatBytes \div 2
      [] OTHER -> FvFatBytes \div 4

\* the logical FAT: the chain of cluster 4 varies ("loop": 4 -> 5 -> 4, "self":
\* 4 -> 4), cluster 2 is one cluster long
FvEntries(p) ==
    [c \in 0..(FvCapacity(p.ft) - 1) |->
        CASE c < 2 -> ImgEoc(p.ft)
          [] c = 2 -> ImgEoc(p.ft)
          [] c = 4 -> CASE p.chain = "mixed" -> 5
                        [] p.chain = "even" -> 6
                        [] p.chain = "low" -> 1
                        [] p.chain = "beyond" -> FvBeyond(p.ft)
                        [] p.chain = "loop" -> 5
                        [] p.chain = "self" -> 4
                        [] OTHER -> 0
          [] c = 5 -> CASE p.chain = "mixed" -> ImgEoc(p.ft)
                        [] p.chain = "loop" -> 4
                        [] OTHER -> 0
          [] c = 6 -> IF p.chain = "even" THEN ImgEoc(p.ft) ELSE 0
          [] c = FvSplitCluster -> IF p.chain = "mixed" THEN FvSplitCluster + 1 ELSE 0
          [] c = FvSplitCluster + 1 -> IF p.chain = "mixed" THEN ImgEoc(p.ft) ELSE 0
          [] OTHER -> 0]

\* bytes laid out on consecutive sectors of FvBytesPerSector from sector `first`
FvOnSectors(bytes, first) ==
    [s \in first..(first + FvFatSize - 1) |->
        SubSeq(Pad(bytes, FvFatBytes), (s - first) * FvBytesPerSector + 1,
               (s - first + 1) * FvBytesPerSector)]

FvBoot(p) ==
    [b510 |-> 85, b511 |-> 170,
     bytes_per_sector |-> FvBytesPerSector,
     sectors_per_cluster |-> ImgSectorsPerCluster,
     reserved_clusters |-> FvReserved,
     num_fats |-> 2,
     root_entry_count |-> IF p.ft = "Fat32" THEN 0 ELSE FvRootEntries,
     total_sectors_16 |-> IF p.ft = "Fat32" THEN 0 ELSE FvTotal(p.ft),
     fat_size_16 |-> IF p.ft = "Fat32" THEN 0 ELSE FvFatSize,
     total_sectors_32 |-> IF p.ft = "Fat32" THEN FvTotal(p.ft) ELSE 0,
     fat_size_32 |-> IF p.ft = "Fat32" THEN FvFatSize ELSE 0,
     flags |-> p.flags,
     root_cluster |-> IF p.ft = "Fat32" THEN 2 ELSE 0]

\* the first FAT copy is the logical FAT, or all zero where it is stale
FvImage(p) ==
    [exists |-> TRUE,
     len |-> FvTotal(p.ft) * FvBytesPerSector,
     boot0 |-> FvBoot(p),
     boot6 |-> FvBoot(p),
     sectors |->
         FvOnSectors(IF p.stale THEN <<>>
                     ELSE SubSeq(FatBytes(p.ft, FvEntries(p)), 1, FvFatBytes),
                     FvReserved)
         @@ FvOnSectors(SubSeq(FatBytes(p.ft, FvEntries(p)), 1, FvFatBytes),
                        FvReserved + FvFatSize)]

\* flags: 0, 0x0081 (bit 7 and FAT 1 in bits 0-3), 0x1100 (bit 8 and 1 in bits 12-15)
FvParams ==
    [ft : {"Fat12", "Fat16", "Fat32"},
     chain : {"mixed", "even", "low", "beyond", "free"},
     flags : {0, 129, 4352},
     stale : BOOLEAN]

FvImages ==
    {FvImage(p) : p \in {q \in FvParams : q.ft # "Fat32" => (q.flags = 0 /\ ~q.stale)}}

InitFat == InitWith(FvImages)

\* the clusters whose FAT entry callers ask for
FvAsked == {2, 4, 5, FvSplitCluster, FvSplitCluster + 1}

\* the FAT lookup of read_data: locate the entry of a cluster, then read it
lookup_fat_entry(f, cluster) ==
    Try(determine_fat_entry_offset(f, cluster), LAMBDA loc :
    read_fat_entry(f, cluster, loc[1], loc[2]))

FatEntry ==
    /\ pc = "idle"
    /\ \E cluster \in FvAsked :
          CallRef("fat_entry", <<cluster>>, lookup_fat_entry(Self, cluster))

NextFat == MountVolume \/ Return \/ FatEntry \/ ChainIO

SpecFat == InitFat /\ [][NextFat]_vars

(***************************************************************************)
(* Directories: FAT12 volumes whose root directory is a first entry (a     *)
(* long-name run of some kind before a short record), then nothing, a free *)
(* slot or a record with both the directory and the volume-id bit, then    *)
(* possibly a second short record, then zeros; or short records up to the  *)
(* last slot, so that no record starts with 0x00.                          *)
(***************************************************************************)
DvRootEntries == 2^3
DvRootSectors == (DvRootEntries * 32 + ImgBytesPerSector - 1) \div ImgBytesPerSector
DvTotal == ImgReserved + 2 + DvRootSectors + ImgClusters("Fat12") * ImgSectorsPerCluster

NameHello1 == Name83(<<72, 69, 76, 76, 79, 126, 49>>, <<84, 88, 84>>)  \* "HELLO~1 TXT"
NameKanji == Name83(<<5, 66, 67>>, <<>>)                     \* 0x05 "BC"
NameGapExt == Name83(<<65>>, <<>>)                           \* "A          "
NameReadme == Name83(<<82, 69, 65, 68, 77, 69>>, <<77, 68>>) \* "README  MD "
\* "Hello World.txt"
HelloWorld == <<72, 101, 108, 108, 111, 32, 87, 111, 114, 108, 100, 46, 116, 120, 116>>

DvShortName(short) ==
    CASE short = "hello" -> NameHello1
      [] short = "kanji" -> NameKanji
      [] short = "gapext" -> SubSeq(NameGapExt, 1, 8) \o <<32, 88, 32>>   \* "A", " X "
      [] short = "noext" -> NameAB
      [] OTHER -> NameReadme

\* the two fragments of "Hello World.txt": the 13 first units, and the rest
DvLow == SubSeq(HelloWorld, 1, 13)
DvHigh == LongUnits(SubSeq(HelloWorld, 14, 15))
\* 'a', a surrogate pair, a lone high surrogate, 'b'
DvSurrogates == LongUnits(<<97, 55357, 56832, 55296, 98>>)

\* the long-name records before the short record of name n, in on-disk order
DvRun(run, n) ==
    CASE run = "none" -> <<>>
      [] run = "good" ->
           LongRec(66, DvHigh, chksum(n)) \o LongRec(1, DvLow, chksum(n))
      [] run = "bad1" ->
           LongRec(66, DvHigh, (chksum(n) + 1) % U8) \o LongRec(1, DvLow, chksum(n))
      [] run = "bad2" ->
           LongRec(66, DvHigh, chksum(n)) \o LongRec(1, DvLow, (chksum(n) + 1) % U8)
      [] run = "order0" ->
           LongRec(66, DvHigh, chksum(n)) \o LongRec(0, DvLow, chksum(n))
      [] run = "high" -> LongRec(67, DvHigh, chksum(n))
      [] run = "swapped" ->
           LongRec(65, DvLow, chksum(n)) \o LongRec(2, DvHigh, chksum(n))
      [] run = "twin" ->
           LongRec(65, DvHigh, chksum(n)) \o LongRec(1, LongUnits(<<97, 98>>), chksum(n))
      \* a first fragment of another file, then a fragment "ab" of this name
      [] run = "stale" ->
           LongRec(66, DvHigh, (chksum(n) + 1) % U8)
           \o LongRec(1, LongUnits(<<97, 98>>), chksum(n))
      \* a name of exactly 13 units: no 0x0000 is stored
      [] run = "exact" -> LongRec(65, DvLow, chksum(n))
      [] OTHER -> LongRec(65, DvSurrogates, chksum(n))

DvGap(gap) ==
    CASE gap = "none" -> <<>>
      [] gap = "free" -> ShortRec(<<229>> \o SubSeq(NameB, 2, 11), 32, 0, 0)
      [] OTHER -> ShortRec(NameB, 24, 0, 0)

DvSecond(second, n) ==
    CASE second = "none" -> <<>>
      [] second = "plain" -> ShortRec(NameSub, 16, 0, 0)
      [] OTHER -> ShortRec(n, 32, 0, 0)

\* records followed by short records up to the last slot of the root directory
DvFill(recs) ==
    recs \o Concat([k \in 1..(DvRootSectors * RecsPerSector - Len(recs) \div 32) |->
                       ShortRec(NameB, 32, 0, 0)])

DvRecords(p) ==
    IF p.second = "full"
    THEN DvFill(DvRun(p.run, DvShortName(p.short))
                \o ShortRec(DvShortName(p.short), 32, 3, 13)
                \o DvGap(p.gap))
    ELSE DvRun(p.run, DvShortName(p.short))
         \o ShortRec(DvShortName(p.short), 32, 3, 13)
         \o DvGap(p.gap)
         \o DvSecond(p.second, DvShortName(p.short))

DvFat == [c \in 0..MaxCluster |-> IF c < 2 \/ c = 3 THEN ImgEoc("Fat12") ELSE 0]

DvBoot ==
    [b510 |-> 85, b511 |-> 170,
     bytes_per_sector |-> ImgBytesPerSector,
     sectors_per_cluster |-> ImgSectorsPerCluster,
     reserved_clusters |-> ImgReserved,
     num_fats |-> 2,
     root_entry_count |-> DvRootEntries,
     total_sectors_16 |-> DvTotal,
     fat_size_16 |-> 1,
     total_sectors_32 |-> 0,
     fat_size_32 |-> 0,
     flags |-> 0,
     root_cluster |-> 0]

DvImage(p) ==
    [exists |-> TRUE,
     len |-> DvTotal * ImgBytesPerSector,
     boot0 |-> DvBoot,
     boot6 |-> DvBoot,
     sectors |->
         OnSectors(FatBytes("Fat12", DvFat), ImgReserved)
         @@ OnSectors(FatBytes("Fat12", DvFat), ImgReserved + 1)
         @@ OnSectors(DvRecords(p), ImgReserved + 2)]

DvParams ==
    [run : {"none", "good", "bad1", "bad2", "order0", "high", "swapped", "twin",
            "stale", "exact", "surrogates"},
     short : {"hello", "kanji", "gapext", "noext", "readme"},
     gap : {"none", "free", "both"},
     second : {"none", "plain", "same", "full"}]

DvImages == {DvImage(p) : p \in DvParams}

InitDir == InitWith(DvImages)

\* mounting decodes the root directory; get_inode then finds the cached children
NextDir == MountVolume \/ Return \/ GetInode

SpecDir == InitDir /\ [][NextDir]_vars

(***************************************************************************)
(* Chain walks, one iteration of their loop at a time.  While a walk is in *)
(* progress pc = "walking" and ret.frame holds the local variables of the  *)
(* function.  The volumes are those of the FAT readers, with chains that   *)
(* come back to a cluster already visited.                                 *)
(***************************************************************************)
\* n_blocks of file_cluster_count is a u32 and data of read_file_full a Vec in
\* the memory of the process.  The model gives the counter the values
\* 0..MaxWalk and the memory room for MaxWalk clusters, so that the end of
\* either is reached; the chains that end are shorter.
MaxWalk == 12

WvParams ==
    [ft : {"Fat12", "Fat16", "Fat32"},
     chain : {"mixed", "free", "loop", "self"},
     flags : {0},
     stale : {FALSE}]

WvImages == {FvImage(p) : p \in WvParams}

InitWalk == InitWith(WvImages)

\* the clusters callers start a walk from
WvStarts == {0, 2, 4, 5}

\* one iteration of the `while !eof` loop of file_cluster_count
count_body(f, cluster, frame) ==
    Try(determine_fat_entry_offset(f, frame.current_block), LAMBDA loc :
    Try(read_fat_entry(f, cluster, loc[1], loc[2]), LAMBDA fat_entry :
    \* n_blocks += 1
    IF frame.n_blocks + 1 > MaxWalk /\ overflow_checks THEN Panic
    ELSE Ok([eof |-> is_eof(f, fat_entry) \/ fat_entry = 0,
             current_block |-> fat_entry,
             n_blocks |-> (frame.n_blocks + 1) % (MaxWalk + 1)])))

\* file_cluster_count up to the first test of its loop
CountStart ==
    /\ pc = "idle"
    /\ \E cluster \in WvStarts :
          IF cluster = 0
          THEN /\ pc' = "returned"
               /\ ret' = [op |-> "file_cluster_count", args |-> <<cluster>>,
                          out |-> Ok(0)]
          ELSE /\ pc' = "walking"
               /\ ret' = [op |-> "file_cluster_count", args |-> <<cluster>>,
                          out |-> Ok(None),
                          frame |-> [eof |-> FALSE, current_block |-> cluster,
                                     n_blocks |-> 0]]
    /\ KeepHandle
    /\ UNCHANGED <<image, overflow_checks>>

\* the loop test of file_cluster_count and, where it passes, one iteration
CountStep ==
    /\ pc = "walking"
    /\ ret.op = "file_cluster_count"
    /\ IF ret.frame.eof
       THEN /\ pc' = "returned"
            /\ ret' = [op |-> ret.op, args |-> ret.args, out |-> Ok(ret.frame.n_blocks)]
       ELSE LET r == count_body(Self, ret.args[1], ret.frame) IN
            IF r.ok
            THEN /\ pc' = "walking"
                 /\ ret' = [ret EXCEPT !.frame = r.val]
            ELSE /\ pc' = After(r)
                 /\ ret' = [op |-> ret.op, args |-> ret.args, out |-> r]
    /\ KeepHandle
    /\ UNCHANGED <<image, overflow_checks>>

\* one iteration of the `while let Some(fat_entry)` loop of read_file_full;
\* an append that the memory has no room for aborts the process
full_body(f, frame) ==
    Bind(frame.data \o frame.sector, LAMBDA data :
    IF Len(data) > MaxWalk * f.bpb.sectors_per_cluster * f.bpb.bytes_per_sector
    THEN Panic
    ELSE Try(read_data(f, frame.fat_entry_option.val), LAMBDA new_data :
         Ok([data |-> data, sector |-> new_data.sector,
             fat_entry_option |-> new_data.next])))

\* read_file_full up to the first test of its loop
ReadStart ==
    /\ pc = "idle"
    /\ \E cluster \in WvStarts :
          LET r == read_data(Self, cluster) IN
          IF r.ok
          THEN /\ pc' = "walking"
               /\ ret' = [op |-> "read_file_full", args |-> <<cluster>>,
                          out |-> Ok(None),
                          frame |-> [data |-> <<>>, sector |-> r.val.sector,
                                     fat_entry_option |-> r.val.next]]
          ELSE /\ pc' = After(r)
               /\ ret' = [op |-> "read_file_full", args |-> <<cluster>>,
                          out |-> r]
    /\ KeepHandle
    /\ UNCHANGED <<image, overflow_checks>>

\* the loop test of read_file_full and, where it passes, one iteration
ReadStep ==
    /\ pc = "walking"
    /\ ret.op = "read_file_full"
    /\ IF ~ret.frame.fat_entry_option.some
       THEN /\ pc' = "returned"
            /\ ret' = [op |-> ret.op, args |-> ret.args,
                       out |-> Ok(ret.frame.data \o ret.frame.sector)]
       ELSE LET r == full_body(Self, ret.frame) IN
            IF r.ok
            THEN /\ pc' = "walking"
                 /\ ret' = [ret EXCEPT !.frame = r.val]
            ELSE /\ pc' = After(r)
                 /\ ret' = [op |-> ret.op, args |-> ret.args, out |-> r]
    /\ KeepHandle
    /\ UNCHANGED <<image, overflow_checks>>

NextWalk == MountVolume \/ Return \/ CountStart \/ CountStep \/ ReadStart \/ ReadStep

\* a walk in progress runs on: the one thread of the caller is inside the loop
SpecWalk ==
    InitWalk /\ [][NextWalk]_vars /\ WF_vars(CountStep) /\ WF_vars(ReadStep)

(***************************************************************************)
(* Properties.                                                             *)
(***************************************************************************)
Mounted == pc \in {"idle", "returned"}

Returned(op) == pc = "returned" /\ ret.op = op

\* the containers of the cached directory d
ChildrenOf(d) == {dir_cache[d][k] : k \in 1..Len(dir_cache[d])}

\* C1: get_data(ino, offset, size) on a known child that is a regular file, with
\* offset not beyond the file's size, returns the file's bytes from offset up to
\* min(offset + size, size of the file) and nothing after them.
C1_GetDataStopsAtEndOfFile ==
    Returned("get_data") =>
        \A d \in DOMAIN dir_cache : \A k \in ChildrenOf(d) :
            (/\ cluster_number(k) = ret.args[1]
             /\ inode_cache[ret.args[1]] = d
             /\ BitAnd(k.short_entry.attribute, 16, 8) = 0
             /\ ret.args[2] <= k.short_entry.size)
            => /\ ret.out.ok
               /\ ret.out.val.some
               /\ read_file_full(Self, ret.args[1]).ok
               /\ ret.out.val.val
                     = SubSeq(read_file_full(Self, ret.args[1]).val, ret.args[2] + 1,
                              Min(ret.args[2] + ret.args[3], k.short_entry.size))

\* a directory-attribute child of a decoded directory starts at cluster i
ObservedAsDirectory(i) ==
    \E d \in DOMAIN dir_cache : \E k \in ChildrenOf(d) :
        cluster_number(k) = i /\ BitAnd(k.short_entry.attribute, 16, 8) # 0

RootInode == IF fat_type = "Fat32" THEN ebpb32.root_cluster ELSE 0

\* C2: list_directory(inode) on an inode that is neither the root nor the first
\* cluster of a directory child of a decoded directory returns absent, does not
\* abort and leaves the directory cache as it was.
C2_ListUnobservedIsAbsent ==
    [][(/\ pc = "idle"
        /\ ret'.op = "list_directory"
        /\ ret'.args[1] # RootInode
        /\ ~ObservedAsDirectory(ret'.args[1]))
       => (pc' = "returned" /\ ret'.out = Ok(None) /\ dir_cache' = dir_cache)]_vars

\* C3: every child container of every cached directory has its first cluster
\* mapped to that directory by the inode-to-parent map.
C3_ChildrenMapToTheirDirectory ==
    Mounted =>
        \A d \in DOMAIN dir_cache : \A k \in ChildrenOf(d) :
            /\ cluster_number(k) \in DOMAIN inode_cache
            /\ inode_cache[cluster_number(k)] = d

\* C10: for a start cluster of the data region whose chain read_full reads, the
\* length read is cluster_count(start) * sectors_per_cluster * bytes_per_sector.
C10_ReadFullLengthIsClusterCount ==
    (Returned("chain_io") /\ ret.args[1] >= 2 /\ ret.out.val.read_full_len.ok)
    => /\ ret.out.val.cluster_count.ok
       /\ ret.out.val.read_full_len.val
             = ret.out.val.cluster_count.val * bpb.sectors_per_cluster
               * bpb.bytes_per_sector

\* C4: every inode of the inode-to-parent map has a cached parent that holds a
\* child starting at that inode; get_inode(i) never aborts, returns a container
\* whose first cluster is i when some cached directory holds such a child, and
\* absent when none does.
C4_ParentsAreCachedAndHoldTheChild ==
    /\ \A i \in DOMAIN inode_cache :
          /\ inode_cache[i] \in DOMAIN dir_cache
          /\ \E k \in ChildrenOf(inode_cache[i]) : cluster_number(k) = i
    /\ ret.op = "get_inode" =>
          /\ pc = "returned"
          /\ IF \E d \in DOMAIN dir_cache : \E k \in ChildrenOf(d) :
                    cluster_number(k) = ret.args[1]
             THEN /\ ret.out.val.some
                  /\ cluster_number(ret.out.val.val.child) = ret.args[1]
             ELSE ret.out = Ok(None)

\* get_inode has answered for an inode whose parent entry was overwritten by a
\* directory decoded after the root
C4_Witness ==
    /\ Returned("get_inode")
    /\ ret.out.val.some
    /\ inode_cache[ret.args[1]] # RootInode
    /\ \E k \in ChildrenOf(RootInode) : cluster_number(k) = ret.args[1]

\* C5: a key of the directory cache stays a key and keeps its entry list through
\* every later call, and list_directory of a cached inode returns that list.
C5_CachedDirectoriesAreStable ==
    [][/\ \A d \in DOMAIN dir_cache :
             d \in DOMAIN dir_cache' /\ dir_cache'[d] = dir_cache[d]
       /\ (ret'.op = "list_directory" /\ ret'.args[1] \in DOMAIN dir_cache)
             => (pc' = "returned" /\ ret'.out = Ok(Some(dir_cache[ret'.args[1]])))]_vars

\* list_directory of the root, cached since mount, after two more directories
\* were decoded
C5_Witness ==
    /\ Returned("list_directory")
    /\ ret.args[1] = RootInode
    /\ Cardinality(DOMAIN dir_cache) >= 3

\* the indices of the children of the cached directory d whose lowercased
\* presentable name is the lowercased name
MatchesOf(d, name) ==
    {i \in 1..Len(dir_cache[d]) :
        to_lowercase(dir_cache[d][i].cached_name) = to_lowercase(name)}

\* C6: when lookup(parent_inode, name) returns, the parent is cached, and the
\* result is the matching child no other matching child precedes, or absent
\* when no child matches.
C6_LookupReturnsFirstMatch ==
    Returned("lookup") =>
        /\ ret.args[1] \in DOMAIN dir_cache
        /\ IF MatchesOf(ret.args[1], ret.args[2]) = {}
           THEN ret.out = Ok(None)
           ELSE /\ ret.out.ok /\ ret.out.val.some
                /\ ret.out.val.val.index \in MatchesOf(ret.args[1], ret.args[2])
                /\ \A j \in MatchesOf(ret.args[1], ret.args[2]) :
                      ret.out.val.val.index <= j
                /\ ret.out.val.val.child
                      = dir_cache[ret.args[1]][ret.out.val.val.index]

\* lookup has chosen between two children whose names match
C6_Witness ==
    /\ Returned("lookup")
    /\ ret.out.val.some
    /\ Cardinality(MatchesOf(ret.args[1], ret.args[2])) >= 2

\* C7: after a successful mount exactly one of the two EBPBs is present, and
\* the FAT32 EBPB is the one present exactly when the detected type is FAT32.
C7_EbpbFollowsDetectedType ==
    Mounted =>
        /\ ebpb16.present # ebpb32.present
        /\ ebpb32.present <=> fat_type = "Fat32"

\* (total_sectors - first_data_sector) / sectors_per_cluster of the mounted
\* volume, with root_dir_sectors = ceil(root_entry_count * 32 / bytes_per_sector)
VolumeClusterCount ==
    ((IF bpb.total_sectors_16 # 0 THEN bpb.total_sectors_16 ELSE bpb.total_sectors_32)
     - (bpb.reserved_clusters
        + bpb.num_fats * (IF bpb.fat_size_16 # 0 THEN bpb.fat_size_16
                          ELSE ebpb32.fat_size_32)
        + (bpb.root_entry_count * 32 + bpb.bytes_per_sector - 1)
          \div bpb.bytes_per_sector))
    \div bpb.sectors_per_cluster

\* C8: the detected type is FAT12 exactly when the volume's cluster count is
\* below 4085, FAT16 exactly when it is from 4085 to 65524, FAT32 exactly when
\* it is 65525 or more.
C8_TypeFollowsClusterCount ==
    Mounted =>
        /\ fat_type = "Fat12" <=> VolumeClusterCount < 4085
        /\ fat_type = "Fat16" <=> (4085 <= VolumeClusterCount /\ VolumeClusterCount < 65525)
        /\ fat_type = "Fat32" <=> VolumeClusterCount >= 65525

\* the boot record a mount goes by: sector 0 when it carries the signature,
\* else the backup at sector 6
BootUsed ==
    IF image.boot0.b510 = 85 /\ image.boot0.b511 = 170 THEN image.boot0
    ELSE image.boot6

\* C9: a mounted handle means the signature 0x55 0xAA was found in sector 0 or,
\* failing that, in sector 6, that the record found says num_fats >= 2, and that
\* the image is at least total_sectors * bytes_per_sector bytes long; a mount
\* that fails leaves no handle and no cache content.
C9_MountOnlyOfVerifiedVolume ==
    /\ Mounted =>
          /\ image.exists
          /\ BootUsed.b510 = 85 /\ BootUsed.b511 = 170
          /\ BootUsed.num_fats >= 2
          /\ image.len >= (IF BootUsed.total_sectors_16 = 0
                           THEN BootUsed.total_sectors_32
                           ELSE BootUsed.total_sectors_16) * BootUsed.bytes_per_sector
          /\ bpb.num_fats = BootUsed.num_fats
    /\ ~Mounted =>
          /\ pc \in {"unmounted", "aborted"}
          /\ bpb = NoBpb /\ fat_type = "None"
          /\ ~ebpb16.present /\ ~ebpb32.present
          /\ fat = <<>> /\ dir_cache = <<>> /\ inode_cache = <<>>

\* a volume mounted from the backup boot sector, sector 0 having neither the
\* signature nor two FATs
C9_Witness ==
    /\ Mounted
    /\ image.boot0.b510 # 85
    /\ image.boot0.num_fats < 2

(***************************************************************************)
(* Properties of the FAT table, against the bytes of the image.            *)
(***************************************************************************)
\* byte k (from 0) of FAT copy `bank`, as the image holds it
FatByte(bank, k) ==
    image.sectors[bpb.reserved_clusters + bank * FvFatSize
                  + (k \div bpb.bytes_per_sector)][(k % bpb.bytes_per_sector) + 1]

\* the entry FAT copy `bank` stores for cluster c
StoredEntry(bank, c) ==
    CASE fat_type = "Fat16" -> FatByte(bank, c * 2) + 256 * FatByte(bank, c * 2 + 1)
      [] fat_type = "Fat32" ->
           (FatByte(bank, c * 4) + 256 * FatByte(bank, c * 4 + 1)
            + 65536 * FatByte(bank, c * 4 + 2)
            + 16777216 * FatByte(bank, c * 4 + 3)) % 2^28
      [] OTHER ->
           IF c % 2 = 1
           THEN (FatByte(bank, c + c \div 2)
                 + 256 * FatByte(bank, c + c \div 2 + 1)) \div 16
           ELSE (FatByte(bank, c + c \div 2)
                 + 256 * FatByte(bank, c + c \div 2 + 1)) % 4096

\* clusters whose entry lies inside a FAT copy
HasEntry(c) == c >= 0 /\ c < FvCapacity(fat_type)

\* the FAT copy in use: the first when bit 7 of the FAT32 flags is clear, else
\* the one numbered by bits 0-3
ActiveFat ==
    IF fat_type = "Fat32" /\ (ebpb32.flags \div 128) % 2 = 1 THEN ebpb32.flags % 16
    ELSE 0

\* C11: on FAT32 every FAT entry read is the entry of the active FAT copy: the
\* first copy when bit 7 of the flags is clear, the copy numbered by bits 0-3
\* when it is set; the other copy has no part in the result.
C11_Fat32ReadsActiveFat ==
    (Returned("fat_entry") /\ fat_type = "Fat32" /\ HasEntry(ret.args[1]))
        => ret.out = Ok(StoredEntry(ActiveFat, ret.args[1]))

\* C12: for every cluster C the reader returns the entry a FAT copy stores for C
\* (FAT16: u16 at C*2; FAT32: u32 at C*4, low 28 bits; FAT12: 12 bits at
\* C + C/2, shifted for odd C, masked for even C, the high byte taken from the
\* next sector when the entry starts on the last byte of a sector).
C12_ReaderReturnsStoredEntry ==
    (ret.op = "fat_entry" /\ HasEntry(ret.args[1]))
        => /\ pc = "returned"
           /\ \E bank \in {0, 1} : ret.out = Ok(StoredEntry(bank, ret.args[1]))

\* a FAT12 entry that starts on the last byte of a sector has been read
C12_Witness ==
    /\ Returned("fat_entry")
    /\ fat_type = "Fat12"
    /\ ret.args[1] = FvSplitCluster
    /\ (FvSplitCluster + FvSplitCluster \div 2) % bpb.bytes_per_sector
       = bpb.bytes_per_sector - 1
    /\ ret.out = Ok(FvSplitCluster + 1)

EndOfChain(e) ==
    CASE fat_type = "Fat12" -> e >= 4088
      [] fat_type = "Fat16" -> e >= 65528
      [] OTHER -> e >= 268435448

\* the valid cluster numbers of the mounted volume
InRange(c) == c >= 2 /\ c <= VolumeClusterCount + 1

\* a pointer that is neither an end mark, nor free, nor a cluster of the volume
Stray(e) == ~EndOfChain(e) /\ e # 0 /\ ~InRange(e)

\* the clusters of the chain from c, a stray pointer ending it like an end mark
RECURSIVE ChainLen(_, _)
ChainLen(c, visited) ==
    IF c \in visited \/ ~HasEntry(c) THEN 0
    ELSE IF EndOfChain(StoredEntry(ActiveFat, c)) \/ StoredEntry(ActiveFat, c) = 0
            \/ Stray(StoredEntry(ActiveFat, c))
         THEN 1
         ELSE 1 + ChainLen(StoredEntry(ActiveFat, c), visited \cup {c})

RECURSIVE HasStray(_, _)
HasStray(c, visited) ==
    IF c \in visited \/ ~HasEntry(c) THEN FALSE
    ELSE IF Stray(StoredEntry(ActiveFat, c)) THEN TRUE
    ELSE IF EndOfChain(StoredEntry(ActiveFat, c)) \/ StoredEntry(ActiveFat, c) = 0
         THEN FALSE
         ELSE HasStray(StoredEntry(ActiveFat, c), visited \cup {c})

\* C13: a chain that runs into a pointer outside [2, cluster_count + 1] ends
\* there as at an end mark: cluster_count and read_full return normally, with
\* the clusters up to that pointer.
C13_StrayPointerEndsChain ==
    (Returned("chain_io") /\ InRange(ret.args[1]) /\ HasStray(ret.args[1], {}))
        => /\ ret.out.val.cluster_count = Ok(ChainLen(ret.args[1], {}))
           /\ ret.out.val.read_full_len
              = Ok(ChainLen(ret.args[1], {}) * bpb.sectors_per_cluster
                   * bpb.bytes_per_sector)

\* the count the reader gives when every entry is decoded for its own cluster
RECURSIVE ReaderCount(_, _)
ReaderCount(c, visited) ==
    IF c \in visited THEN Hang
    ELSE Try(lookup_fat_entry(Self, c), LAMBDA e :
         IF EndOfChain(e) \/ e = 0 THEN Ok(1)
         ELSE Try(ReaderCount(e, visited \cup {c}), LAMBDA n : Ok(n + 1)))

\* C20: cluster_count(start) is 0 for start 0, and else the number of clusters
\* met by following, from start, the reader's entry of each cluster (decoded
\* for that cluster) up to an end mark or a free entry, on every FAT type.
C20_ClusterCountFollowsReader ==
    Returned("chain_io")
        => IF ret.args[1] = 0 THEN ret.out.val.cluster_count = Ok(0)
           ELSE ReaderCount(ret.args[1], {}).ok
                => ret.out.val.cluster_count = ReaderCount(ret.args[1], {})

(***************************************************************************)
(* Properties of directory decoding, against the records of the image.     *)
(***************************************************************************)
\* the root directory region of a FAT12/16 image, as the image holds it
DiskRootFirst ==
    image.boot0.reserved_clusters + image.boot0.num_fats * image.boot0.fat_size_16
DiskRootCount ==
    (image.boot0.root_entry_count * 32 + image.boot0.bytes_per_sector - 1)
    \div image.boot0.bytes_per_sector
DiskSector(s) ==
    IF s \in DOMAIN image.sectors THEN image.sectors[s]
    ELSE Zeros(image.boot0.bytes_per_sector)
DiskRoot == Concat([i \in 1..DiskRootCount |-> DiskSector(DiskRootFirst + i - 1)])

\* the i-th 32-byte record of the root directory, from 1
DiskRec(i) == SubSeq(DiskRoot, 32 * (i - 1) + 1, 32 * i)
DiskRecCount == Len(DiskRoot) \div 32
\* records before the first one whose first byte is 0x00
DiskLive ==
    {i \in 1..DiskRecCount : \A j \in 1..i : DiskRec(j)[1] # 0}

IsFree(b) == b[1] = 229
IsFragment(b) == ~IsFree(b) /\ b[12] % 64 = 15
IsBoth(b) == (b[12] \div 8) % 2 = 1 /\ (b[12] \div 16) % 2 = 1
\* the records that are directory entries
Kept == {i \in DiskLive : ~IsFree(DiskRec(i)) /\ ~IsFragment(DiskRec(i))
                          /\ ~IsBoth(DiskRec(i))}
Rank(i) == Cardinality({j \in Kept : j <= i})

\* the long-name records that immediately precede record i
RunOf(i) == {j \in 1..(i - 1) : \A m \in j..(i - 1) : IsFragment(DiskRec(m))}

\* mounting has ended, one way or the other
Decoded == ret.op = "mount_volume" \/ Mounted

\* C18: the entry list of a directory has, in on-disk order, one container for
\* each record before the first 0x00 record that is not free, not a long-name
\* fragment and does not set both the directory and the volume-id bit, each
\* with the first cluster, size and attribute byte of its record.
C18_EntriesAreTheKeptRecords ==
    Mounted =>
        /\ 0 \in DOMAIN dir_cache
        /\ Len(dir_cache[0]) = Cardinality(Kept)
        /\ \A i \in Kept :
              /\ dir_cache[0][Rank(i)].short_entry.first_cluster_low
                 = LE(SubSeq(DiskRec(i), 27, 28))
              /\ dir_cache[0][Rank(i)].short_entry.first_cluster_hi
                 = LE(SubSeq(DiskRec(i), 21, 22))
              /\ dir_cache[0][Rank(i)].short_entry.size = LE(SubSeq(DiskRec(i), 29, 32))
              /\ dir_cache[0][Rank(i)].short_entry.attribute = DiskRec(i)[12]
              /\ dir_cache[0][Rank(i)].short_entry.name = SubSeq(DiskRec(i), 1, 11)

\* a directory with long-name fragments, a record with both bits and two entries
C18_Witness ==
    /\ Mounted
    /\ Cardinality(Kept) = 2
    /\ Len(dir_cache[0]) = 2
    /\ \E i \in DiskLive : IsFragment(DiskRec(i))
    /\ \E i \in DiskLive : IsBoth(DiskRec(i))
    /\ dir_cache[0][1].short_entry.size = 13
    /\ dir_cache[0][2].short_entry.attribute = 16

\* order & !0x40
Unmarked(order) == IF (order \div 64) % 2 = 1 THEN order - 64 ELSE order

\* C14: every cached container has one short entry and a long-entry sequence that
\* is empty, or as long as (order & ~0x40) of its first element says, with the
\* short-name checksum of the short entry in every fragment.
C14_ContainersAreWellFormed ==
    \A d \in DOMAIN dir_cache : \A k \in 1..Len(dir_cache[d]) :
        \/ dir_cache[d][k].long_entries = <<>>
        \/ /\ Len(dir_cache[d][k].long_entries)
              = Unmarked(dir_cache[d][k].long_entries[1].order)
           /\ \A j \in 1..Len(dir_cache[d][k].long_entries) :
                 dir_cache[d][k].long_entries[j].checksum
                 = chksum(dir_cache[d][k].short_entry.name)

\* the short name as presented: the base without trailing pads, then '.' and
\* the extension bytes that are no pads unless the extension is all pads; a
\* first byte 0x05 stands for 0xE5
TrimPads(s) ==
    SubSeq(s, 1, IF \A i \in 1..Len(s) : s[i] = 32 THEN 0
                 ELSE CHOOSE i \in 1..Len(s) :
                        s[i] # 32 /\ \A j \in (i + 1)..Len(s) : s[j] = 32)
ShortFormat(n) ==
    [i \in 1..Len(TrimPads(SubSeq(n, 1, 8))) |->
        IF i = 1 /\ n[1] = 5 THEN 229 ELSE n[i]]
    \o (IF \A i \in 9..11 : n[i] = 32 THEN <<>>
        ELSE <<46>> \o SelectSeq(SubSeq(n, 9, 11), LAMBDA c : c # 32))

\* a fragment of the run before record i has another checksum than its short name
BadChecksum(i) ==
    \E j \in RunOf(i) : DiskRec(j)[14] # chksum(SubSeq(DiskRec(i), 1, 11))

\* C15: when a fragment of the run before a short entry has a checksum other
\* than that of the short name, the container made for the entry has no long
\* entries, its name is the formatted short name, and decoding does not abort.
C15_BadChecksumFallsBackToShortName ==
    Decoded =>
        \A i \in Kept : BadChecksum(i) =>
            /\ pc # "aborted"
            /\ dir_cache[0][Rank(i)].long_entries = <<>>
            /\ dir_cache[0][Rank(i)].cached_name = ShortFormat(SubSeq(DiskRec(i), 1, 11))

\* C16: a short entry without accepted long entries is named by its formatted
\* short name, whatever its 11 bytes are (a first byte 0x05, an extension
\* whose first byte is a pad), and formatting it does not abort.
C16_ShortNameIsFormatted ==
    Decoded =>
        /\ (\A i \in Kept : RunOf(i) = {}) => pc # "aborted"
        /\ pc # "aborted" =>
              \A k \in 1..Len(dir_cache[0]) :
                  dir_cache[0][k].long_entries = <<>>
                  => dir_cache[0][k].cached_name
                     = ShortFormat(dir_cache[0][k].short_entry.name)

\* UTF-16 to code points, U+FFFD for every unit that is no part of a pair
RECURSIVE Utf16Lossy(_)
Utf16Lossy(u) ==
    IF u = <<>> THEN <<>>
    ELSE IF u[1] \in 55296..56319 /\ Len(u) > 1 /\ u[2] \in 56320..57343
    THEN <<65536 + 1024 * (u[1] - 55296) + (u[2] - 56320)>>
         \o Utf16Lossy(SubSeq(u, 3, Len(u)))
    ELSE <<IF u[1] \in 55296..57343 THEN 65533 ELSE u[1]>> \o Utf16Lossy(Tail(u))

\* the units before the first 0x0000
UpToNul(u) == SubSeq(u, 1, (CHOOSE i \in 1..(Len(u) + 1) :
                               /\ i = Len(u) + 1 \/ u[i] = 0
                               /\ \A j \in 1..(i - 1) : u[j] # 0) - 1)

FragmentUnits(e) == e.name1 \o e.name2 \o e.name3

\* the long entries carry the fragment indices 1..n, each once
IndexedOnce(long) ==
    \A m \in 1..Len(long) :
        Cardinality({j \in 1..Len(long) : Unmarked(long[j].order) = m}) = 1

\* the 13 units of each fragment, in ascending fragment index
UnitsInOrder(long) ==
    Concat([m \in 1..Len(long) |->
               FragmentUnits(long[CHOOSE j \in 1..Len(long) :
                                      Unmarked(long[j].order) = m])])

\* C17: a container with accepted long entries is named by the 13 units of each
\* fragment in ascending fragment index, cut at the first 0x0000 and decoded as
\* UTF-16 with U+FFFD for every ill-formed unit.
C17_LongNameIsReconstructed ==
    \A d \in DOMAIN dir_cache : \A k \in 1..Len(dir_cache[d]) :
        (dir_cache[d][k].long_entries # <<>> /\ IndexedOnce(dir_cache[d][k].long_entries))
        => dir_cache[d][k].cached_name
           = Utf16Lossy(UpToNul(UnitsInOrder(dir_cache[d][k].long_entries)))

\* "Hello World.txt" has been rebuilt from its two fragments before HELLO~1.TXT
C17_Witness ==
    /\ Mounted
    /\ \E k \in 1..Len(dir_cache[0]) :
          /\ dir_cache[0][k].short_entry.name = NameHello1
          /\ Len(dir_cache[0][k].long_entries) = 2
          /\ IndexedOnce(dir_cache[0][k].long_entries)
          /\ dir_cache[0][k].cached_name = HelloWorld

\* a fragment of the run before record i whose order byte (lower 6 bits) is not
\* the index it has when the run is read backwards from the short record
BadOrder(i) == \E j \in RunOf(i) : DiskRec(j)[1] % 64 # i - j

\* C19: when a fragment of the run before a short entry has an order byte that
\* is not its index read backwards, the long-name list is discarded, the name
\* is the short name, and decoding does not abort.
C19_BadOrderFallsBackToShortName ==
    Decoded =>
        \A i \in Kept : BadOrder(i) =>
            /\ pc # "aborted"
            /\ dir_cache[0][Rank(i)].long_entries = <<>>
            /\ dir_cache[0][Rank(i)].cached_name = ShortFormat(SubSeq(DiskRec(i), 1, 11))

(***************************************************************************)
(* Properties of the root directory size.                                  *)
(***************************************************************************)
\* C21: root_dir_sectors is ceil(root_entry_count * 32 / bytes_per_sector) for
\* every 16-bit root_entry_count, with no overflow or wrap-around of the
\* 16-bit product, and 0 when root_entry_count is 0.
C21_RootDirSectorsIsCeiling ==
    (ret.op = "mount_volume" /\ image.exists /\ image.len >= 512 * 7)
        => root_dir_sectors([bpb |-> FatBpb_new(BootUsed)])
           = Ok((BootUsed.root_entry_count * 32 + BootUsed.bytes_per_sector - 1)
                \div BootUsed.bytes_per_sector)

(***************************************************************************)
(* Properties of the decoding loop.                                        *)
(***************************************************************************)
\* C23: long-name fragments are attached only to the short entry that follows
\* their run immediately: none is carried over a short entry (accepted, with
\* its list discarded, or rejected) or over a free slot to a later entry.
C23_FragmentsStayWithTheirEntry ==
    Mounted =>
        \A i \in Kept :
            \A e \in 1..Len(dir_cache[0][Rank(i)].long_entries) :
                \E j \in RunOf(i) :
                    dir_cache[0][Rank(i)].long_entries[e]
                    = FatLongDirectoryEntry_new(DiskRec(j))

\* C24: decoding never reads a record past the end of the directory buffer: a
\* directory without a record that starts with 0x00 is decoded up to its end
\* and its entries are returned.
C24_FullDirectoryIsDecoded ==
    (Decoded /\ DiskLive = 1..DiskRecCount)
        => /\ pc # "aborted"
           /\ Len(dir_cache[0]) = Cardinality(Kept)

\* the run before record i is as the format has it: checksums and order bytes
ValidRun(i) == RunOf(i) # {} /\ ~BadChecksum(i) /\ ~BadOrder(i)

\* the units of the run before record i, first fragment index first
RunUnits(i) ==
    Concat([m \in 1..Cardinality(RunOf(i)) |->
               FragmentUnits(FatLongDirectoryEntry_new(DiskRec(i - m)))])

\* C25: a valid run whose name fills its fragments (no 0x0000 among its
\* 13 x fragments units) is rebuilt in full, and decoding does not abort.
C25_UnterminatedNameIsRebuilt ==
    Decoded =>
        \A i \in Kept :
            (ValidRun(i) /\ \A u \in 1..Len(RunUnits(i)) : RunUnits(i)[u] # 0)
            => /\ pc # "aborted"
               /\ dir_cache[0][Rank(i)].cached_name = Utf16Lossy(RunUnits(i))

(***************************************************************************)
(* Termination of the chain walks.                                         *)
(***************************************************************************)
\* C22: the chain walk of cluster_count and of read_full comes to an end for
\* every FAT content, also where the chain leads back to a cluster it has
\* visited.
C22_WalkTerminates == (pc = "walking") ~> (pc # "walking")

====
